---- MODULE Spec2Model ----
(***************************************************************************)
(* Blog API: the Post/Comment repository (controllers over a document      *)
(* store with multi-document transactions) and the connection manager      *)
(* (bounded exponential-backoff connect, reconnect watchdog).              *)
(*                                                                         *)
(* Every store call of a controller is one step of its request; the code   *)
(* between two awaits runs with the step that resumes it.                  *)
(***************************************************************************)
EXTENDS Integers, Naturals, Sequences, FiniteSets, TLC

\* ------------------------------------------------------------------ bounds
NReq == 2
MaxPosts == 2
MaxComments == 2
MaxCalls == 2
MaxTimers == 1
MaxDisconnects == 1
MaxWatchdogCalls == 1
MaxSignals == 2
MaxFetches == 3
MaxQueryLen == 3
MaxPageLen == 2

\* ------------------------------------------------------------ identifiers
Req == 1..NReq
PostIds == 1..MaxPosts
CommentIds == 1..MaxComments
\* an id string that is not a well-formed ObjectId ('invalid-id')
BadId == 0 - 1
\* an absent id (undefined)
NoId == BadId - 1

VARIABLES
  posts,        \* ids of the stored Post documents (committed state)
  comments,     \* stored Comment documents, records [id, pid]
  postSeq,      \* number of Post ids generated so far
  commentSeq,   \* number of Comment ids generated so far
  rq,           \* per request: operation, position, argument, response
  tx,           \* per request: session and transaction of deletePost
  gh,           \* per request: history of the request
  faulty,       \* whether store calls can fail in this run (network, server)
  lq,           \* the getPosts request: query strings, position, response
  docs,         \* the fields of the stored Post documents, by id
  \* --- connection manager (config/database.js)
  mongoUri,           \* the configured connection URI, a sequence of characters
  testMode,           \* process.env.NODE_ENV === 'test'
  isConnecting,       \* let isConnecting
  isConnected,        \* let isConnected
  connectionPromise,  \* let connectionPromise: 0 (null) or the retry sequence it belongs to
  readyState,         \* mongoose.connection.readyState
  lost,               \* an established connection was lost and the driver is trying to regain it
  chain,              \* the retry sequences started by connectDB()
  calls,              \* the connectDB() calls made from outside (callers, watchdog)
  timers,             \* pending watchdog timers (setTimeout 5000)
  disc,               \* the disconnectDB() call under way: "none", "waiting", "closing"
  nDisc,              \* number of disconnectDB() calls made
  proc,               \* the process: "running", "exit0" or "exit1"
  server,             \* the HTTP server of startServer: "none", "listening",
                      \* "closing" or "closed"
  \* --- error handler (middleware/errorHandler.js)
  eh,                 \* the error passed to next(err) and the response sent for it
  sd,                 \* the shutdown on SIGTERM / SIGINT: both signal handlers
  vt,                 \* the results of the validateStatusTransition calls made
  pg                  \* the pages a client has collected from getPosts

repoVars == <<posts, comments, postSeq, commentSeq, rq, tx, gh, faulty, lq, docs>>
connVars == <<mongoUri, testMode, isConnecting, isConnected, connectionPromise, readyState,
              lost, chain, calls, timers, disc, nDisc, proc, server>>

\* ------------------------------------------------------------- input text
\* A text value of a request body: absent, not a string, or a string with
\* `pad` surrounding blanks and `body` other characters.
MaxTitleLen == 200
Undef == [kind |-> "undef", pad |-> 0, body |-> 0]
NonString == [kind |-> "other", pad |-> 0, body |-> 1]
Str(p, b) == [kind |-> "str", pad |-> p, body |-> b]
Texts == {Undef, NonString, Str(0, 0), Str(1, 0), Str(1, 1), Str(0, MaxTitleLen + 1)}
Statuses == {"undef", "draft", "published", "archived"}

\* String.prototype.trim
trim(t) == IF t.kind = "str" THEN Str(0, t.body) ELSE t
\* a Post document, or the body of a request: the four fields
NoDoc == [title |-> Undef, content |-> Undef, author |-> Undef, status |-> "undef"]

\* JavaScript !x
Falsy(t) == t.kind = "undef" \/ (t.kind = "str" /\ t.pad + t.body = 0)
\* typeof x !== 'string' || x.trim().length === 0
NotNonEmptyString(t) == t.kind # "str" \/ t.body = 0
SchemaValidPost_NoMaxLength(title, content) ==
  title.body >= 1 /\ content.pad + content.body >= 1
\* postSchema: title is trimmed, then minlength 1 and maxlength 200; content minlength 1
SchemaValidPost(title, content) ==
  /\ title.body >= 1 /\ title.body <= MaxTitleLen
  /\ content.pad + content.body >= 1

\* ------------------------------------------------------------ query strings
\* query strings are character sequences over a small alphabet
\* an absent query parameter (undefined)
Missing == <<"undefined">>
Min(a, b) == IF a < b THEN a ELSE b
QChars == {"-", "0", "1", "a"}
QStrings == UNION {[1..n -> QChars] : n \in 0..MaxQueryLen}
Queries == [page : QStrings \cup {Missing}, limit : QStrings \cup {Missing}]
\* the queries with at most one of the two parameters
OneSidedQueries ==
  {[page |-> p, limit |-> Missing] : p \in QStrings \cup {Missing}}
    \cup {[page |-> Missing, limit |-> l] : l \in QStrings}

\* page and limit as plain numbers
PageChars == {"0", "1", "2"}
PageStrings == UNION {[1..n -> PageChars] : n \in 1..MaxPageLen}
PageQueries == [page : PageStrings \cup {Missing}, limit : PageStrings \cup {Missing}]

Digits == {"0", "1", "2"}
digitVal(c) == IF c = "2" THEN 2 ELSE IF c = "1" THEN 1 ELSE 0

\* the number of leading digits of s, and the value of its first n digits
RECURSIVE leadingDigits(_)
leadingDigits(s) ==
  IF s = <<>> \/ Head(s) \notin Digits THEN 0 ELSE 1 + leadingDigits(Tail(s))
RECURSIVE digitsValue(_, _)
digitsValue(s, n) == IF n = 0 THEN 0 ELSE digitsValue(s, n - 1) * 10 + digitVal(s[n])

NaN == [nan |-> TRUE, val |-> 0]
\* parseInt: an optional sign, then the longest run of digits; NaN without one
parseInt(s) ==
  LET neg == s # <<>> /\ Head(s) = "-"
      body == IF neg THEN Tail(s) ELSE s
      n == leadingDigits(body)
  IN  IF n = 0 THEN NaN
      ELSE [nan |-> FALSE, val |-> IF neg THEN 0 - digitsValue(body, n)
                                          ELSE digitsValue(body, n)]

\* x || d: NaN and 0 are falsy
orDefault(x, d) == IF x.nan \/ x.val = 0 THEN d ELSE x.val

\* const page = parseInt(req.query.page) || 1
pageOf(q) == orDefault(parseInt(q.page), 1)
\* const limit = Math.min(parseInt(req.query.limit) || 10, 100)
limitOf(q) == Min(orDefault(parseInt(q.limit), 10), 100)

\* sort({ createdAt: -1 }): ids are handed out in creation order
RECURSIVE newestFirst(_)
newestFirst(S) ==
  IF S = {} THEN <<>>
  ELSE LET m == CHOOSE x \in S : \A y \in S : y <= x
       IN  <<m>> \o newestFirst(S \ {m})
limitN_Unlimited(s, n) == s
\* cursor skip(n) and limit(n)
skipN(s, n) == IF n >= Len(s) THEN <<>> ELSE SubSeq(s, n + 1, Len(s))
limitN(s, n) == IF n >= Len(s) THEN s ELSE SubSeq(s, 1, n)

\* the pagination of getCommentsByPost: the query strings, parseInt(page),
\* parseInt(limit) and skip, then the comments of the page and the count
NoPage == [page |-> Missing, limit |-> Missing, pageNum |-> NaN, limitNum |-> NaN,
           skip |-> NaN, items |-> <<>>, total |-> 0]

IdleRq == [op |-> "none", pc |-> "idle", id |-> NoId, res |-> "none", cnt |-> 0, valid |-> TRUE, found |-> FALSE,
           doc |-> NoDoc, list |-> NoPage]
\* sess: the client session; txn: the session's transaction state as the
\* driver tracks it; snap: the comments in the transaction's read snapshot;
\* delPost, delComments: its uncommitted writes
NoTx == [sess |-> "none", txn |-> "none", snap |-> {}, delPost |-> FALSE, delComments |-> {}]
\* history of a deletePost: whether its post was stored when it was called,
\* and the ids of the comments then stored for that post
NoGh == [stored |-> FALSE, pre |-> {}]

\* items: the ids of the posts of the page; seen, quiet: the posts stored when
\* the page was fetched, and whether they were still the stored posts when
\* the count was taken
NoList == [pc |-> "idle", page |-> Missing, limit |-> Missing, res |-> "none",
           effPage |-> 0, effLimit |-> 0, total |-> 0, totalPages |-> 0,
           items |-> <<>>, seen |-> {}, quiet |-> TRUE]

RepoInit ==
  /\ lq = NoList
  /\ docs = [i \in PostIds |-> NoDoc]
  /\ posts = {}
  /\ comments = {}
  /\ postSeq = 0
  /\ commentSeq = 0
  /\ rq = [r \in Req |-> IdleRq]
  /\ tx = [r \in Req |-> NoTx]
  /\ gh = [r \in Req |-> NoGh]
  /\ faulty \in BOOLEAN

Free(r) == rq[r].pc \in {"idle", "done"}
Running(r) == ~Free(r)
RunningOp(o) == {r \in Req : Running(r) /\ rq[r].op = o}


\* a request with a body starts: fresh locals
BeginDoc(r, o, i, p, v, d) ==
  /\ Free(r)
  /\ rq' = [rq EXCEPT ![r] = [op |-> o, pc |-> p, id |-> i, res |-> "none", cnt |-> 0,
                             valid |-> v, found |-> FALSE, doc |-> d,
                             list |-> NoPage]]
  /\ tx' = [tx EXCEPT ![r] = NoTx]
  /\ gh' = [gh EXCEPT ![r] = NoGh]
\* a request starts
Begin(r, o, i, p, v) == BeginDoc(r, o, i, p, v, NoDoc)

\* a request answers before its first store call
Reply(r, o, i, code) ==
  /\ Free(r)
  /\ rq' = [rq EXCEPT ![r] = [op |-> o, pc |-> "done", id |-> i, res |-> code, cnt |-> 0, valid |-> TRUE, found |-> FALSE,
                             doc |-> NoDoc, list |-> NoPage]]
  /\ tx' = [tx EXCEPT ![r] = NoTx]
  /\ gh' = [gh EXCEPT ![r] = NoGh]

Goto(r, p) == rq' = [rq EXCEPT ![r].pc = p]
\* the lookup found the document: on to the next store call
Found(r, p) == rq' = [rq EXCEPT ![r].pc = p, ![r].found = TRUE]
Finish(r, code) ==
  rq' = [rq EXCEPT ![r].pc = "done", ![r].res = code, ![r].valid = TRUE, ![r].found = FALSE,
                   ![r].doc = NoDoc]
\* a store call of the request fails (network, server): the await rejects
Fault(r) == faulty /\ UNCHANGED gh

WellFormed(i) == i \in PostIds \cup CommentIds
StoreUnchanged == UNCHANGED <<posts, comments, postSeq, commentSeq, faulty, docs>>
HandlerUnchanged == UNCHANGED <<eh, sd, vt, pg>>
ConnUnchanged == UNCHANGED connVars /\ HandlerUnchanged
ListUnchanged == UNCHANGED lq

\* documents an open transaction has written to (write-locked until it ends)
LockedPosts(r) == IF tx[r].txn = "active" /\ tx[r].delPost THEN {rq[r].id} ELSE {}
LockedComments(r) == IF tx[r].txn = "active" THEN tx[r].delComments ELSE {}
PostLockedByOther(r, i) == \E q \in Req \ {r} : i \in LockedPosts(q)
CommentLockedByOther(r, c) == \E q \in Req \ {r} : c \in LockedComments(q)

CommentsOf(cs, p) == {c \in cs : c.pid = p}
CommentIdsIn(cs) == {c.id : c \in cs}

\* ---------------------------------------------------------------- createPost
createPostCheck(title, content, author, status) ==
  IF Falsy(title) \/ Falsy(content) \/ Falsy(author) THEN "badRequest"
  ELSE IF NotNonEmptyString(title) THEN "badRequest"
  ELSE IF NotNonEmptyString(content) THEN "badRequest"
  ELSE IF NotNonEmptyString(author) THEN "badRequest"
  ELSE IF status # "undef" /\ status \notin {"draft", "published"} THEN "badRequest"
  ELSE "save"

\* the request bodies of createPost and updatePost
PostBodies == [title : Texts, content : Texts, author : Texts, status : Statuses]
\* bodies that differ in their title only: none, a good one, one too long
PlainBodies ==
  {[title |-> t, content |-> Str(1, 1), author |-> Str(1, 1), status |-> "undef"] :
     t \in {Undef, Str(1, 1), Str(0, MaxTitleLen + 1)}}

newPost_NoTrim(b) ==
  [title |-> b.title, content |-> b.content, author |-> b.author,
   status |-> IF b.status = "undef" THEN "draft" ELSE b.status]
\* new Post(postData): the schema's setters trim title and author, and a
\* status left out of postData takes the default
newPost(b) ==
  [title |-> trim(b.title), content |-> b.content, author |-> trim(b.author),
   status |-> IF b.status = "undef" THEN "draft" ELSE b.status]

\* createPost up to post.save(); doc is the body of the request
CP_Body(r, b) ==
  /\ postSeq + Cardinality(RunningOp("createPost")) < MaxPosts
  /\ Free(r)
  /\ LET check == createPostCheck(b.title, b.content, b.author, b.status)
     IN  rq' = [rq EXCEPT ![r] =
                  IF check = "save"
                    THEN [IdleRq EXCEPT !.op = "createPost", !.pc = "cp_save", !.doc = b,
                                        !.valid = SchemaValidPost(b.title, b.content)]
                    ELSE [IdleRq EXCEPT !.op = "createPost", !.pc = "done", !.doc = b,
                                        !.res = check]]
  /\ tx' = [tx EXCEPT ![r] = NoTx]
  /\ gh' = [gh EXCEPT ![r] = NoGh]
  /\ StoreUnchanged
  /\ ConnUnchanged /\ ListUnchanged

CP_Call(r) == Free(r) /\ \E b \in PlainBodies : CP_Body(r, b)
CP_Any(r) == Free(r) /\ \E b \in PostBodies : CP_Body(r, b)
\* a createPost of the client was refused or has failed
Stopped(r) == rq[r].op = "createPost" /\ rq[r].pc = "done" /\ rq[r].res # "created"

\* await post.save(): schema validation, then the insert; any rejection is
\* answered by the catch-all with a server error; doc becomes the post that
\* is returned
CP_Save(r) ==
  /\ rq[r].op = "createPost" /\ rq[r].pc = "cp_save"
  /\ \/ /\ Fault(r) /\ Finish(r, "error") /\ StoreUnchanged
     \/ /\ ~rq[r].valid /\ Finish(r, "error") /\ StoreUnchanged /\ UNCHANGED gh
     \/ /\ rq[r].valid
        /\ posts' = posts \cup {postSeq + 1}
        /\ docs' = [docs EXCEPT ![postSeq + 1] = newPost(rq[r].doc)]
        /\ postSeq' = postSeq + 1
        /\ rq' = [rq EXCEPT ![r].pc = "done", ![r].res = "created", ![r].id = postSeq + 1,
                            ![r].valid = TRUE, ![r].doc = newPost(rq[r].doc)]
        /\ UNCHANGED <<comments, commentSeq, gh, faulty>>
  /\ UNCHANGED tx
  /\ ConnUnchanged /\ ListUnchanged

\* ------------------------------------------------------------------- reads
\* Post.findById(id) / Comment.findById(id): a malformed id rejects (CastError)
findPost(i) == IF ~WellFormed(i) THEN "cast" ELSE IF i \in posts THEN "found" ELSE "null"
findComment(i) ==
  IF ~WellFormed(i) THEN "cast" ELSE IF i \in CommentIdsIn(comments) THEN "found" ELSE "null"

\* getPostById: ObjectId.isValid, then findById
getPostById(i) ==
  IF ~WellFormed(i) THEN "badRequest" ELSE IF findPost(i) = "null" THEN "notFound" ELSE "ok"
\* getCommentById, up to its answer
getCommentById(i) ==
  IF findComment(i) = "cast" THEN "badRequest"
  ELSE IF findComment(i) = "null" THEN "notFound" ELSE "ok"
\* getCommentsByPost, up to the answer of its post lookup
getCommentsByPost(i) ==
  IF findPost(i) = "cast" THEN "badRequest"
  ELSE IF findPost(i) = "null" THEN "notFound" ELSE "ok"

ReadArgs == PostIds \cup CommentIds \cup {BadId}

GP_Call(r) ==
  \E i \in ReadArgs :
    /\ IF WellFormed(i) THEN Begin(r, "getPost", i, "gp_find", TRUE)
                        ELSE Reply(r, "getPost", i, "badRequest")
    /\ StoreUnchanged
    /\ ConnUnchanged /\ ListUnchanged

GP_Find(r) ==
  /\ rq[r].op = "getPost" /\ rq[r].pc = "gp_find"
  /\ \/ Fault(r) /\ Finish(r, "error")
     \/ Finish(r, getPostById(rq[r].id)) /\ UNCHANGED gh
  /\ StoreUnchanged /\ UNCHANGED tx
  /\ ConnUnchanged /\ ListUnchanged

GC_Call(r) ==
  \E i \in ReadArgs :
    /\ Begin(r, "getComment", i, "gc_find", TRUE)
    /\ StoreUnchanged
    /\ ConnUnchanged /\ ListUnchanged

GC_Find(r) ==
  /\ rq[r].op = "getComment" /\ rq[r].pc = "gc_find"
  /\ \/ Fault(r) /\ Finish(r, "error")
     \/ Finish(r, getCommentById(rq[r].id)) /\ UNCHANGED gh
  /\ StoreUnchanged /\ UNCHANGED tx
  /\ ConnUnchanged /\ ListUnchanged

\* const { page = 1, limit = 10 } = req.query, then parseInt
queryOr(s, d) == IF s = Missing THEN [nan |-> FALSE, val |-> d] ELSE parseInt(s)
\* const skip = (parseInt(page) - 1) * parseInt(limit)
skipNum(p, l) ==
  IF p.nan \/ l.nan THEN NaN ELSE [nan |-> FALSE, val |-> (p.val - 1) * l.val]
\* cursor limit(n): 0 is no limit, a negative n stands for -n
cursorLimit(s, n) == IF n = 0 THEN s ELSE limitN(s, IF n < 0 THEN 0 - n ELSE n)

GCP_Request(r, i, q) ==
  /\ Free(r)
  /\ rq' = [rq EXCEPT ![r] = [IdleRq EXCEPT !.op = "listComments", !.pc = "gcp_post",
                                           !.id = i, !.list.page = q.page,
                                           !.list.limit = q.limit]]
  /\ tx' = [tx EXCEPT ![r] = NoTx]
  /\ gh' = [gh EXCEPT ![r] = NoGh]
  /\ StoreUnchanged
  /\ ConnUnchanged /\ ListUnchanged

GCP_Call(r) == \E i \in ReadArgs : GCP_Request(r, i, [page |-> Missing, limit |-> Missing])
\* a listing with a query, after a request of another kind
GCP_Paged(r) ==
  /\ Free(r) /\ rq[r].op # "listComments"
  /\ \E i \in ReadArgs, q \in OneSidedQueries : GCP_Request(r, i, q)

\* await Post.findById(postId), then the skip
GCP_Post(r) ==
  /\ rq[r].op = "listComments" /\ rq[r].pc = "gcp_post"
  /\ \/ Fault(r) /\ Finish(r, "error")
     \/ /\ getCommentsByPost(rq[r].id) # "ok"
        /\ Finish(r, getCommentsByPost(rq[r].id)) /\ UNCHANGED gh
     \/ /\ getCommentsByPost(rq[r].id) = "ok"
        /\ rq' = [rq EXCEPT ![r].pc = "gcp_fetch",
                            ![r].list.pageNum = queryOr(rq[r].list.page, 1),
                            ![r].list.limitNum = queryOr(rq[r].list.limit, 10),
                            ![r].list.skip = skipNum(queryOr(rq[r].list.page, 1),
                                                     queryOr(rq[r].list.limit, 10))]
        /\ UNCHANGED gh
  /\ StoreUnchanged /\ UNCHANGED tx
  /\ ConnUnchanged /\ ListUnchanged

\* the find and the count, awaited together. The server rejects a negative
\* skip; what it does with a NaN skip or limit is not fixed by the code: it
\* rejects the command or reads NaN as 0
GCP_Fetch(r) ==
  /\ rq[r].op = "listComments" /\ rq[r].pc = "gcp_fetch"
  /\ LET L == rq[r].list
         all == newestFirst(CommentIdsIn(CommentsOf(comments, rq[r].id)))
         answer(items) ==
           rq' = [rq EXCEPT ![r].pc = "done", ![r].res = "ok", ![r].cnt = Len(all),
                            ![r].list.items = items, ![r].list.total = Len(all)]
     IN  \/ Fault(r) /\ Finish(r, "error")
         \/ /\ L.skip.nan \/ L.limitNum.nan
            /\ \/ Finish(r, "error")
               \/ answer(cursorLimit(skipN(all, L.skip.val), L.limitNum.val))
            /\ UNCHANGED gh
         \/ /\ ~L.skip.nan /\ ~L.limitNum.nan /\ L.skip.val < 0
            /\ Finish(r, "error") /\ UNCHANGED gh
         \/ /\ ~L.skip.nan /\ ~L.limitNum.nan /\ L.skip.val >= 0
            /\ answer(cursorLimit(skipN(all, L.skip.val), L.limitNum.val))
            /\ UNCHANGED gh
  /\ StoreUnchanged /\ UNCHANGED tx
  /\ ConnUnchanged /\ ListUnchanged

\* --------------------------------------------------------------- createComment
\* content of the request body: absent/empty, acceptable, or over the schema's
\* 2000 characters
Contents == {"missing", "ok", "tooLong"}
CommentPostArgs == PostIds \cup {BadId, NoId}

\* up to the first await: authentication and required fields
createCommentCheck(auth, content, pid) ==
  IF ~auth THEN "unauthorized"
  ELSE IF content = "missing" \/ pid = NoId THEN "badRequest"
  ELSE "lookup"

CC_Call(r) ==
  \E auth \in BOOLEAN, content \in Contents, pid \in CommentPostArgs :
    /\ commentSeq + Cardinality(RunningOp("createComment")) < MaxComments
    /\ IF createCommentCheck(auth, content, pid) = "lookup"
         THEN Begin(r, "createComment", pid, "cc_lookup", content = "ok")
         ELSE Reply(r, "createComment", pid, createCommentCheck(auth, content, pid))
    /\ StoreUnchanged
    /\ ConnUnchanged /\ ListUnchanged

\* the null check left out
createCommentLookup_NoNullCheck(found) ==
  IF found = "cast" THEN "badRequest" ELSE "create"

\* what createComment does with the result of Post.findById(postId)
createCommentLookup(found) ==
  IF found = "cast" THEN "badRequest" ELSE IF found = "null" THEN "notFound" ELSE "create"

\* const post = await Post.findById(postId)
CC_Lookup(r) ==
  /\ rq[r].op = "createComment" /\ rq[r].pc = "cc_lookup"
  /\ \/ Fault(r) /\ Finish(r, "error")
     \/ /\ createCommentLookup(findPost(rq[r].id)) # "create"
        /\ Finish(r, createCommentLookup(findPost(rq[r].id)))
        /\ UNCHANGED gh
     \/ /\ createCommentLookup(findPost(rq[r].id)) = "create"
        /\ Found(r, "cc_validate") /\ UNCHANGED gh
  /\ StoreUnchanged /\ UNCHANGED tx
  /\ ConnUnchanged /\ ListUnchanged

\* Comment.create: the schema validation, with the postId validator's own
\* Post.findById; a ValidationError is answered with 400
CC_Validate(r) ==
  /\ rq[r].op = "createComment" /\ rq[r].pc = "cc_validate"
  /\ \/ Fault(r) /\ Finish(r, "error")
     \/ /\ (~rq[r].valid \/ findPost(rq[r].id) # "found")
        /\ Finish(r, "badRequest") /\ UNCHANGED gh
     \/ /\ rq[r].valid /\ findPost(rq[r].id) = "found"
        /\ Goto(r, "cc_insert") /\ UNCHANGED gh
  /\ StoreUnchanged /\ UNCHANGED tx
  /\ ConnUnchanged /\ ListUnchanged

\* Comment.create: the insert
CC_Insert(r) ==
  /\ rq[r].op = "createComment" /\ rq[r].pc = "cc_insert"
  /\ \/ Fault(r) /\ Finish(r, "error") /\ StoreUnchanged
     \/ /\ comments' = comments \cup {[id |-> commentSeq + 1, pid |-> rq[r].id]}
        /\ commentSeq' = commentSeq + 1
        /\ rq' = [rq EXCEPT ![r].pc = "done", ![r].res = "created", ![r].cnt = commentSeq + 1,
                            ![r].valid = TRUE, ![r].found = FALSE]
        /\ UNCHANGED <<posts, postSeq, gh, faulty, docs>>
  /\ UNCHANGED tx
  /\ ConnUnchanged /\ ListUnchanged

\* --------------------------------------------------------------- deleteComment
CommentArgs == CommentIds \cup {BadId}

DC_Call(r) ==
  \E auth \in BOOLEAN, owner \in BOOLEAN, i \in CommentArgs :
    /\ IF auth THEN Begin(r, "deleteComment", i, "dc_find", owner)
               ELSE Reply(r, "deleteComment", i, "unauthorized")
    /\ StoreUnchanged
    /\ ConnUnchanged /\ ListUnchanged

\* what deleteComment does with the result of Comment.findById(id); owner:
\* the user is the comment's author or an admin
deleteCommentLookup(found, owner) ==
  IF found = "cast" THEN "badRequest"
  ELSE IF found = "null" THEN "notFound"
  ELSE IF ~owner THEN "forbidden" ELSE "delete"

DC_Find(r) ==
  /\ rq[r].op = "deleteComment" /\ rq[r].pc = "dc_find"
  /\ \/ Fault(r) /\ Finish(r, "error")
     \/ /\ deleteCommentLookup(findComment(rq[r].id), rq[r].valid) # "delete"
        /\ Finish(r, deleteCommentLookup(findComment(rq[r].id), rq[r].valid))
        /\ UNCHANGED gh
     \/ /\ deleteCommentLookup(findComment(rq[r].id), rq[r].valid) = "delete"
        /\ Found(r, "dc_delete") /\ UNCHANGED gh
  /\ StoreUnchanged /\ UNCHANGED tx
  /\ ConnUnchanged /\ ListUnchanged

\* the deletion is acknowledged and the document stays
DC_Delete_KeepsComment(r) ==
  /\ rq[r].op = "deleteComment" /\ rq[r].pc = "dc_delete"
  /\ \/ Fault(r) /\ Finish(r, "error")
     \/ Finish(r, "ok") /\ UNCHANGED gh
  /\ UNCHANGED <<posts, comments, postSeq, commentSeq, tx, faulty, docs>>
  /\ ConnUnchanged /\ ListUnchanged

\* await Comment.findByIdAndDelete(id): its result is not looked at; the
\* write waits while a transaction holds the document
DC_Delete(r) ==
  /\ rq[r].op = "deleteComment" /\ rq[r].pc = "dc_delete"
  /\ \/ Fault(r) /\ Finish(r, "error") /\ UNCHANGED <<comments>>
     \/ /\ ~CommentLockedByOther(r, rq[r].id)
        /\ comments' = {c \in comments : c.id # rq[r].id}
        /\ Finish(r, "ok") /\ UNCHANGED gh
  /\ UNCHANGED <<posts, postSeq, commentSeq, tx, faulty, docs>>
  /\ ConnUnchanged /\ ListUnchanged

\* --------------------------------------------------------------- updateComment
MaxCommentLen == 2000
\* req.body.content: absent, empty, acceptable, over the schema's maxlength
CommentTexts == {Undef, Str(0, 0), Str(1, 1), Str(0, MaxCommentLen + 1)}
\* runValidators: required, minlength 1 and maxlength 2000 after the trim setter
SchemaValidContent(c) ==
  c.kind = "str" /\ trim(c).body >= 1 /\ trim(c).body <= MaxCommentLen

UC_Call(r) ==
  /\ Free(r)
  /\ \E auth \in BOOLEAN, owner \in BOOLEAN, i \in CommentArgs, c \in CommentTexts :
       IF auth THEN BeginDoc(r, "updateComment", i, "uc_find", owner,
                             [NoDoc EXCEPT !.content = c])
               ELSE Reply(r, "updateComment", i, "unauthorized")
  /\ StoreUnchanged
  /\ ConnUnchanged /\ ListUnchanged

\* what updateComment does with the result of Comment.findById(id), up to
\* the test of updateData
updateCommentLookup(found, owner, content) ==
  IF found = "cast" THEN "badRequest"
  ELSE IF found = "null" THEN "notFound"
  ELSE IF ~owner THEN "forbidden"
  ELSE IF content = Undef THEN "badRequest" ELSE "update"

UC_Find(r) ==
  /\ rq[r].op = "updateComment" /\ rq[r].pc = "uc_find"
  /\ \/ Fault(r) /\ Finish(r, "error")
     \/ /\ updateCommentLookup(findComment(rq[r].id), rq[r].valid, rq[r].doc.content)
             # "update"
        /\ Finish(r, updateCommentLookup(findComment(rq[r].id), rq[r].valid,
                                         rq[r].doc.content))
        /\ UNCHANGED gh
     \/ /\ updateCommentLookup(findComment(rq[r].id), rq[r].valid, rq[r].doc.content)
             = "update"
        /\ Found(r, "uc_update") /\ UNCHANGED gh
  /\ StoreUnchanged /\ UNCHANGED tx
  /\ ConnUnchanged /\ ListUnchanged

\* await Comment.findByIdAndUpdate(id, updateData, {new: true, runValidators:
\* true}): the validators run first; the write waits while a transaction
\* holds the document; the result, null when no comment has the id, is sent
\* as the data of a success response (cnt: 1 for a comment, 0 for null). The
\* text of a comment is not part of the modelled store.
UC_Update(r) ==
  /\ rq[r].op = "updateComment" /\ rq[r].pc = "uc_update"
  /\ \/ Fault(r) /\ Finish(r, "error")
     \/ /\ ~SchemaValidContent(rq[r].doc.content)
        /\ Finish(r, "badRequest") /\ UNCHANGED gh
     \/ /\ SchemaValidContent(rq[r].doc.content)
        /\ ~CommentLockedByOther(r, rq[r].id)
        /\ rq' = [rq EXCEPT ![r].pc = "done", ![r].res = "ok",
                            ![r].cnt = IF rq[r].id \in CommentIdsIn(comments) THEN 1 ELSE 0,
                            ![r].valid = TRUE, ![r].found = FALSE, ![r].doc = NoDoc]
        /\ UNCHANGED gh
  /\ StoreUnchanged /\ UNCHANGED tx
  /\ ConnUnchanged /\ ListUnchanged

\* ------------------------------------------------------------------ deletePost
PostArgs == PostIds \cup {BadId}

\* const session = await mongoose.startSession()
DP_Call(r) ==
  \E i \in PostArgs :
    /\ Free(r)
    /\ rq' = [rq EXCEPT ![r] = [op |-> "deletePost", pc |-> "dp_session", id |-> i,
                                res |-> "none", cnt |-> 0, valid |-> TRUE,
                                found |-> FALSE, doc |-> NoDoc, list |-> NoPage]]
    /\ tx' = [tx EXCEPT ![r] = NoTx]
    /\ gh' = [gh EXCEPT ![r] = [stored |-> i \in posts,
                                pre |-> CommentIdsIn(CommentsOf(comments, i))]]
    /\ StoreUnchanged
    /\ ConnUnchanged /\ ListUnchanged

\* the session is there; ObjectId.isValid(id); session.startTransaction().
\* A startSession that rejects is outside the try: no response is sent.
DP_Session(r) ==
  /\ rq[r].op = "deletePost" /\ rq[r].pc = "dp_session"
  /\ \/ /\ Fault(r) /\ Finish(r, "none") /\ UNCHANGED tx
     \/ /\ ~WellFormed(rq[r].id)
        /\ rq' = [rq EXCEPT ![r].pc = "dp_finally", ![r].res = "badRequest"]
        /\ tx' = [tx EXCEPT ![r].sess = "open"]
        /\ UNCHANGED gh
     \/ /\ WellFormed(rq[r].id)
        /\ Goto(r, "dp_find")
        /\ tx' = [tx EXCEPT ![r].sess = "open", ![r].txn = "active"]
        /\ UNCHANGED gh
  /\ StoreUnchanged
  /\ ConnUnchanged /\ ListUnchanged

\* the lookup's null check left out: a missing post is deleted "successfully"
DP_Find_NoNullCheck(r) ==
  /\ rq[r].op = "deletePost" /\ rq[r].pc = "dp_find"
  /\ Goto(r, "dp_deleteMany")
  /\ tx' = [tx EXCEPT ![r].delPost = TRUE, ![r].snap = comments]
  /\ UNCHANGED gh
  /\ StoreUnchanged
  /\ ConnUnchanged /\ ListUnchanged

\* no write conflict: a post another transaction has deleted is deleted again
DP_Find_NoConflict(r) ==
  /\ rq[r].op = "deletePost" /\ rq[r].pc = "dp_find"
  /\ \/ /\ Fault(r) /\ Goto(r, "dp_catch") /\ UNCHANGED tx
     \/ /\ rq[r].id \in posts
        /\ Goto(r, "dp_deleteMany")
        /\ tx' = [tx EXCEPT ![r].delPost = TRUE, ![r].snap = comments]
        /\ UNCHANGED gh
     \/ /\ rq[r].id \notin posts
        /\ Goto(r, "dp_abort")
        /\ UNCHANGED <<tx, gh>>
  /\ StoreUnchanged
  /\ ConnUnchanged /\ ListUnchanged

\* Post.findByIdAndDelete(id).session(session): the transaction's first
\* operation fixes its snapshot; a document another transaction has written
\* to is a write conflict, which rejects
DP_Find(r) ==
  /\ rq[r].op = "deletePost" /\ rq[r].pc = "dp_find"
  /\ \/ /\ Fault(r) /\ Goto(r, "dp_catch") /\ UNCHANGED tx
     \/ /\ rq[r].id \in posts /\ PostLockedByOther(r, rq[r].id)
        /\ Goto(r, "dp_catch") /\ UNCHANGED <<tx, gh>>
     \/ /\ rq[r].id \in posts /\ ~PostLockedByOther(r, rq[r].id)
        /\ Goto(r, "dp_deleteMany")
        /\ tx' = [tx EXCEPT ![r].delPost = TRUE, ![r].snap = comments]
        /\ UNCHANGED gh
     \/ /\ rq[r].id \notin posts
        /\ Goto(r, "dp_abort")
        /\ UNCHANGED <<tx, gh>>
  /\ StoreUnchanged
  /\ ConnUnchanged /\ ListUnchanged

\* if (!post): await session.abortTransaction(); 404
DP_Abort(r) ==
  /\ rq[r].op = "deletePost" /\ rq[r].pc = "dp_abort"
  /\ rq' = [rq EXCEPT ![r].pc = "dp_finally", ![r].res = "notFound"]
  /\ tx' = [tx EXCEPT ![r].txn = "aborted", ![r].snap = {}, ![r].delPost = FALSE,
                          ![r].delComments = {}]
  /\ StoreUnchanged /\ UNCHANGED gh
  /\ ConnUnchanged /\ ListUnchanged

\* deleteOne in place of deleteMany: at most one comment is matched
deleteManyMatch_One(snap, i) ==
  IF CommentIdsIn(CommentsOf(snap, i)) = {} THEN {}
  ELSE {CHOOSE c \in CommentIdsIn(CommentsOf(snap, i)) : TRUE}

\* the comments Comment.deleteMany({postId: id}) matches in the snapshot
deleteManyMatch(snap, i) == CommentIdsIn(CommentsOf(snap, i))

\* deleteMany issued without the session: it takes effect at once, outside
\* the transaction
DP_DeleteMany_NoSession(r) ==
  /\ rq[r].op = "deletePost" /\ rq[r].pc = "dp_deleteMany"
  /\ rq' = [rq EXCEPT ![r].pc = "dp_commit",
                      ![r].cnt = Cardinality(CommentsOf(comments, rq[r].id))]
  /\ comments' = {c \in comments : c.pid # rq[r].id}
  /\ UNCHANGED <<posts, postSeq, commentSeq, faulty, tx, gh, docs>>
  /\ ConnUnchanged /\ ListUnchanged

\* Comment.deleteMany({ postId: id }).session(session): a matched document
\* that was removed after the snapshot is a write conflict
DP_DeleteMany(r) ==
  /\ rq[r].op = "deletePost" /\ rq[r].pc = "dp_deleteMany"
  /\ \/ /\ Fault(r) /\ Goto(r, "dp_catch") /\ UNCHANGED tx
     \/ /\ ~(deleteManyMatch(tx[r].snap, rq[r].id) \subseteq CommentIdsIn(comments))
        /\ Goto(r, "dp_catch") /\ UNCHANGED <<tx, gh>>
     \/ /\ deleteManyMatch(tx[r].snap, rq[r].id) \subseteq CommentIdsIn(comments)
        /\ rq' = [rq EXCEPT ![r].pc = "dp_commit",
                            ![r].cnt = Cardinality(deleteManyMatch(tx[r].snap, rq[r].id))]
        /\ tx' = [tx EXCEPT ![r].delComments = deleteManyMatch(tx[r].snap, rq[r].id)]
        /\ UNCHANGED gh
  /\ StoreUnchanged
  /\ ConnUnchanged /\ ListUnchanged

\* the store after the transaction of request r has committed
commitPosts(r) == posts \ LockedPosts(r)
commitComments(r) == {c \in comments : c.id \notin LockedComments(r)}

\* await session.commitTransaction(): both deletes take effect together, or
\* the commit rejects and neither does (the driver then counts the
\* transaction as committed)
DP_Commit(r) ==
  /\ rq[r].op = "deletePost" /\ rq[r].pc = "dp_commit"
  /\ \/ /\ Fault(r) /\ Goto(r, "dp_catch")
        /\ tx' = [tx EXCEPT ![r].txn = "committed", ![r].snap = {}, ![r].delPost = FALSE,
                          ![r].delComments = {}]
        /\ UNCHANGED <<posts, comments, docs>>
     \/ /\ posts' = commitPosts(r)
        /\ docs' = [i \in PostIds |-> IF i \in commitPosts(r) THEN docs[i] ELSE NoDoc]
        /\ comments' = commitComments(r)
        /\ rq' = [rq EXCEPT ![r].pc = "dp_finally", ![r].res = "ok"]
        /\ tx' = [tx EXCEPT ![r].txn = "committed", ![r].snap = {}, ![r].delPost = FALSE,
                          ![r].delComments = {}]
        /\ UNCHANGED gh
  /\ UNCHANGED <<postSeq, commentSeq, faulty>>
  /\ ConnUnchanged /\ ListUnchanged

\* catch: await session.abortTransaction(), then 500. abortTransaction
\* rejects when the transaction is no longer in progress; the rejection
\* leaves the catch block before the response is sent
DP_Catch(r) ==
  /\ rq[r].op = "deletePost" /\ rq[r].pc = "dp_catch"
  /\ \/ /\ tx[r].txn = "active"
        /\ rq' = [rq EXCEPT ![r].pc = "dp_finally", ![r].res = "error"]
        /\ tx' = [tx EXCEPT ![r].txn = "aborted", ![r].snap = {}, ![r].delPost = FALSE,
                          ![r].delComments = {}]
     \/ /\ tx[r].txn # "active"
        /\ Goto(r, "dp_finally")
        /\ UNCHANGED tx
  /\ StoreUnchanged /\ UNCHANGED gh
  /\ ConnUnchanged /\ ListUnchanged

\* finally: session.endSession()
DP_Finally(r) ==
  /\ rq[r].op = "deletePost" /\ rq[r].pc = "dp_finally"
  /\ Goto(r, "done")
  /\ tx' = [tx EXCEPT ![r].sess = "ended"]
  /\ StoreUnchanged /\ UNCHANGED gh
  /\ ConnUnchanged /\ ListUnchanged

\* ------------------------------------------------------------------ updatePost
\* the checks of the supplied fields, in the order of the code
updatePostCheck(b) ==
  IF b.title # Undef /\ NotNonEmptyString(b.title) THEN "badRequest"
  ELSE IF b.content # Undef /\ NotNonEmptyString(b.content) THEN "badRequest"
  ELSE IF b.author # Undef /\ NotNonEmptyString(b.author) THEN "badRequest"
  ELSE IF b.status # "undef" /\ b.status \notin {"draft", "published"} THEN "badRequest"
  ELSE "save"

\* the fields assigned before a check answers 400: those ahead of the first
\* field that fails its check
passedFields(b) ==
  LET badTitle == b.title # Undef /\ NotNonEmptyString(b.title)
      badContent == badTitle \/ (b.content # Undef /\ NotNonEmptyString(b.content))
      badAuthor == badContent \/ (b.author # Undef /\ NotNonEmptyString(b.author))
  IN  [title |-> IF badTitle THEN Undef ELSE b.title,
       content |-> IF badContent THEN Undef ELSE b.content,
       author |-> IF badAuthor THEN Undef ELSE b.author,
       status |-> "undef"]

assignFields_AllFields(old, b) ==
  [title |-> trim(b.title), content |-> b.content, author |-> trim(b.author),
   status |-> b.status]
\* post.title = title, ...: the supplied fields are assigned (the setters trim
\* title and author), the others stay
assignFields(old, b) ==
  [title |-> IF b.title # Undef THEN trim(b.title) ELSE old.title,
   content |-> IF b.content # Undef THEN b.content ELSE old.content,
   author |-> IF b.author # Undef THEN trim(b.author) ELSE old.author,
   status |-> IF b.status # "undef" THEN b.status ELSE old.status]

\* updatePost up to Post.findById(id)
UP_Body(r, i, b) ==
  /\ IF WellFormed(i) THEN BeginDoc(r, "updatePost", i, "up_find", TRUE, b)
                      ELSE Reply(r, "updatePost", i, "badRequest")
  /\ StoreUnchanged
  /\ ConnUnchanged /\ ListUnchanged

\* the fields a body supplies, and the bodies that supply at most two
Supplied(b) ==
  {f \in {"title", "content", "author"} : b[f] # Undef}
    \cup (IF b.status # "undef" THEN {"status"} ELSE {})
SparseBodies ==
  {[title |-> t, content |-> c, author |-> Undef, status |-> "undef"] :
     t \in Texts, c \in Texts}
    \cup {[title |-> t, content |-> Undef, author |-> a, status |-> "undef"] :
            t \in Texts, a \in Texts}
    \cup {[title |-> Undef, content |-> c, author |-> a, status |-> "undef"] :
            c \in Texts, a \in Texts}
    \cup {[title |-> t, content |-> Undef, author |-> Undef, status |-> st] :
            t \in Texts, st \in Statuses}
    \cup {[title |-> Undef, content |-> c, author |-> Undef, status |-> st] :
            c \in Texts, st \in Statuses}
    \cup {[title |-> Undef, content |-> Undef, author |-> a, status |-> st] :
            a \in Texts, st \in Statuses}

UP_Call(r) == Free(r) /\ \E i \in PostArgs, b \in SparseBodies : UP_Body(r, i, b)
UP_Any(r) == Free(r) /\ \E i \in PostArgs, b \in PostBodies : UP_Body(r, i, b)

\* const post = await Post.findById(id), then the checks and the assignments
UP_Find(r) ==
  /\ rq[r].op = "updatePost" /\ rq[r].pc = "up_find"
  /\ \/ Fault(r) /\ Finish(r, "error")
     \/ /\ rq[r].id \notin posts
        /\ Finish(r, "notFound") /\ UNCHANGED gh
     \/ /\ rq[r].id \in posts /\ updatePostCheck(rq[r].doc) # "save"
        /\ rq' = [rq EXCEPT ![r].pc = "done", ![r].res = updatePostCheck(rq[r].doc),
                            ![r].doc = assignFields(docs[rq[r].id], passedFields(rq[r].doc))]
        /\ UNCHANGED gh
     \/ /\ rq[r].id \in posts /\ updatePostCheck(rq[r].doc) = "save"
        /\ rq' = [rq EXCEPT ![r].pc = "up_save", ![r].found = TRUE,
                            ![r].valid = SchemaValidPost(
                                           assignFields(docs[rq[r].id], rq[r].doc).title,
                                           assignFields(docs[rq[r].id], rq[r].doc).content)]
        /\ UNCHANGED gh
  /\ StoreUnchanged /\ UNCHANGED tx
  /\ ConnUnchanged /\ ListUnchanged

\* the update written before the validation has run
UP_Save_WriteFirst(r) ==
  /\ rq[r].op = "updatePost" /\ rq[r].pc = "up_save"
  /\ rq[r].id \in posts
  /\ docs' = [docs EXCEPT ![rq[r].id] = assignFields(docs[rq[r].id], rq[r].doc)]
  /\ IF rq[r].valid
       THEN rq' = [rq EXCEPT ![r].pc = "done", ![r].res = "ok", ![r].found = FALSE,
                             ![r].doc = assignFields(docs[rq[r].id], rq[r].doc)]
       ELSE Finish(r, "error")
  /\ UNCHANGED <<posts, comments, postSeq, commentSeq, faulty, tx, gh>>
  /\ ConnUnchanged /\ ListUnchanged

\* await post.save(): the validation, then the update of the modified paths;
\* a rejection (ValidationError, the document gone) is answered by the
\* catch-all with a server error; the write waits while a transaction holds
\* the document
UP_Save(r) ==
  /\ rq[r].op = "updatePost" /\ rq[r].pc = "up_save"
  /\ \/ /\ Fault(r) /\ Finish(r, "error") /\ UNCHANGED docs
     \/ /\ ~rq[r].valid /\ Finish(r, "error") /\ UNCHANGED <<docs, gh>>
     \/ /\ rq[r].valid /\ rq[r].id \notin posts
        /\ Finish(r, "error") /\ UNCHANGED <<docs, gh>>
     \/ /\ rq[r].valid /\ rq[r].id \in posts /\ ~PostLockedByOther(r, rq[r].id)
        /\ docs' = [docs EXCEPT ![rq[r].id] = assignFields(docs[rq[r].id], rq[r].doc)]
        /\ rq' = [rq EXCEPT ![r].pc = "done", ![r].res = "ok", ![r].found = FALSE,
                            ![r].doc = assignFields(docs[rq[r].id], rq[r].doc)]
        /\ UNCHANGED gh
  /\ UNCHANGED <<posts, comments, postSeq, commentSeq, faulty, tx>>
  /\ ConnUnchanged /\ ListUnchanged

\* ------------------------------------------------------- connection manager
\* config/database.js: retry configuration
MAX_RETRIES == 5
BASE_DELAY == 1000
MAX_DELAY == 30000

\* connection URIs as character sequences; a missing (undefined) and an empty
\* URI are both falsy and both written <<>>
SchemeMongo == <<"m", "o", "n", "g", "o", "d", "b", ":", "/", "/">>
SchemeSrv == <<"m", "o", "n", "g", "o", "d", "b", "+", "s", "r", "v", ":", "/", "/">>
HostPart == <<"h">>
Uris ==
  { <<>>,
    SchemeMongo \o HostPart,
    SchemeSrv \o HostPart,
    <<"m", "o", "n", "g", "o", "d", "b", ":", "/">> \o HostPart,
    <<"h", "t", "t", "p", ":", "/", "/">> \o HostPart }

\* String.prototype.startsWith
startsWith(s, p) == Len(s) >= Len(p) /\ SubSeq(s, 1, Len(p)) = p

calculateDelay_Linear(retryCount) == Min(BASE_DELAY * (retryCount + 1), MAX_DELAY)
\* calculateDelay: Math.min(BASE_DELAY * Math.pow(2, retryCount), MAX_DELAY)
calculateDelay(retryCount) == Min(BASE_DELAY * (2 ^ retryCount), MAX_DELAY)

validateConnectionUri_AnyMongo(uri) ==
  uri # <<>> /\ startsWith(uri, <<"m", "o", "n", "g", "o", "d", "b">>)
\* validateConnectionUri: falsy -> false; neither scheme -> false; else true
validateConnectionUri(uri) ==
  IF uri = <<>> THEN FALSE
  ELSE IF ~startsWith(uri, SchemeMongo) /\ ~startsWith(uri, SchemeSrv) THEN FALSE
  ELSE TRUE

shouldRetry_OffByOne(retryCount) == retryCount < MAX_RETRIES
\* the retry test of the catch block: retryCount < MAX_RETRIES - 1
shouldRetry(retryCount) == retryCount < MAX_RETRIES - 1

\* messages of the errors mongoose.connect can reject with
\* every failed attempt has an error message of its own
errorOf(n) == <<"connect failed", n>>
Errs == {errorOf(n) : n \in 1..(MAX_RETRIES + 1)}
NoErr == <<"none", 0>>

\* new Error(`Failed to connect to MongoDB after ${MAX_RETRIES} attempts: ${error.message}`)
finalError(msg) == <<"Failed to connect to MongoDB after", MAX_RETRIES, "attempts", msg>>
ConfigError == <<"Invalid or missing MongoDB connection URI">>

\* the connectDB() calls made from outside: first those of the callers, then
\* those of the watchdog
Call == 1..(MaxCalls + MaxWatchdogCalls)
WatchdogCall == {c \in Call : c > MaxCalls}

\* a retry sequence: the promise made by one outside connectDB() call together
\* with the promises of the recursive calls it returns
NoChain ==
  [st |-> "unused", retryCount |-> 0, lastErr |-> NoErr, delays |-> <<>>, error |-> <<>>,
   settled |-> "pending"]
NoCall == [st |-> "unused", by |-> "none", chain |-> 0, caught |-> FALSE]
\* ------------------------------------- error handler (middleware/errorHandler.js)
\* A message is a sequence of tokens: a slash, a blank, a word, the word
\* E11000 of the store's duplicate-key messages. The handler's own texts are
\* tokens of their own.
MaxMsgLen == 2
MsgTokens == {"/", " ", "w", "E11000"}
Messages == UNION {[1..n -> MsgTokens] : n \in 0..MaxMsgLen}
Envs == {"production", "development", "test"}
\* err.statusCode and err.code: 0 when the property is not set
StatusCodes == {0, 400, 404, 500, 503}
ErrCodes == {0, 13, 11000}
ErrNames == {"Error", "ValidationError", "CastError", "JsonWebTokenError",
             "TokenExpiredError", "DocumentNotFoundError"}
Stacks == {"at controller", "at driver"}
Thrown == [statusCode : StatusCodes, message : Messages, stack : Stacks, name : ErrNames,
           code : ErrCodes, isOperational : BOOLEAN, errors : {<<"title">>},
           path : {"_id"}, keyPattern : {"", "title"}]

NoBody == [message |-> <<>>, hasErrors |-> FALSE, errors |-> <<>>, dev |-> FALSE,
           error |-> <<>>, stack |-> "", name |-> "", code |-> 0]
NoResponse == [status |-> 0, body |-> NoBody]
NoHandled == [pc |-> "idle", env |-> "test",
              err |-> [statusCode |-> 0, message |-> <<>>, stack |-> "", name |-> "Error",
                       code |-> 0, isOperational |-> FALSE, errors |-> <<>>, path |-> "",
                       keyPattern |-> ""],
              res |-> NoResponse]

\* message.includes(tok)
includes(msg, tok) == \E i \in 1..Len(msg) : msg[i] = tok

\* message.replace(/\/[\w\/.-]+/g, ''): a slash followed by at least one word
\* or slash is removed together with the whole run that follows it
pathChar(t) == t # " "
RECURSIVE dropRun(_)
dropRun(s) == IF s # <<>> /\ pathChar(Head(s)) THEN dropRun(Tail(s)) ELSE s
RECURSIVE stripPaths(_)
stripPaths(s) ==
  IF s = <<>> THEN <<>>
  ELSE IF Head(s) = "/" /\ Len(s) >= 2 /\ pathChar(s[2]) THEN stripPaths(dropRun(Tail(s)))
  ELSE <<Head(s)>> \o stripPaths(Tail(s))

\* errorHandler(err, req, res, next): the status and the body of the response
errorHandler(env, err) ==
  LET statusCode0 == IF err.statusCode # 0 THEN err.statusCode ELSE 500
      message0 == IF err.message # <<>> THEN err.message ELSE <<"Internal server error">>
      isServerError == statusCode0 >= 500
      s0 == [statusCode |-> statusCode0, message |-> message0, hasErrors |-> FALSE,
             errors |-> <<>>]
      s1 == IF err.name = "ValidationError"
            THEN [s0 EXCEPT !.statusCode = 400, !.message = <<"Validation Error">>,
                            !.hasErrors = TRUE,
                            !.errors = [i \in 1..Len(err.errors) |->
                                          [field |-> err.errors[i],
                                           message |-> <<"is required">>]]]
            ELSE s0
      s2 == IF err.name = "CastError"
            THEN [s1 EXCEPT !.statusCode = 400,
                            !.message = <<"Invalid", " ", err.path, " ", "format">>]
            ELSE s1
      field == err.keyPattern
      s3 == IF err.code = 11000
            THEN [s2 EXCEPT !.statusCode = 409,
                            !.message = IF env = "production"
                                        THEN <<"Resource already exists">>
                                        ELSE IF field # ""
                                        THEN <<"Duplicate value for", " ", field>>
                                        ELSE <<"Duplicate key error">>,
                            !.hasErrors = TRUE,
                            !.errors = <<[field |-> IF field # "" THEN field ELSE "unknown",
                                          message |-> <<IF field # "" THEN field ELSE "Field",
                                                        " ", "already exists">>]>>]
            ELSE s2
      s4 == IF err.name = "JsonWebTokenError"
            THEN [s3 EXCEPT !.statusCode = 401, !.message = <<"Invalid token">>]
            ELSE s3
      s5 == IF err.name = "TokenExpiredError"
            THEN [s4 EXCEPT !.statusCode = 401, !.message = <<"Token expired">>]
            ELSE s4
      s6 == IF err.name = "DocumentNotFoundError"
            THEN [s5 EXCEPT !.statusCode = 404, !.message = <<"Resource not found">>]
            ELSE s5
      s7 == IF err.isOperational
            THEN [s6 EXCEPT !.statusCode = statusCode0, !.message = err.message]
            ELSE s6
      hidden == IF s7.statusCode = 500 THEN <<"Internal server error">> ELSE s7.message
      generic == IF includes(hidden, "E11000") THEN <<"Duplicate resource">> ELSE hidden
      message == IF env = "production" THEN stripPaths(generic) ELSE s7.message
      dev == env = "development" /\ isServerError
  IN  [status |-> s7.statusCode,
       body |-> [message |-> message, hasErrors |-> s7.hasErrors, errors |-> s7.errors,
                 dev |-> dev,
                 error |-> IF dev THEN err.message ELSE <<>>,
                 stack |-> IF dev THEN err.stack ELSE "",
                 name |-> IF dev THEN err.name ELSE "",
                 code |-> IF dev THEN err.code ELSE 0]]

\* next(err): an error reaches the handler; NODE_ENV is that of the process
EH_Raise ==
  /\ eh.pc = "idle"
  /\ \E env \in Envs, e \in Thrown :
       /\ testMode <=> env = "test"
       /\ eh' = [pc |-> "raised", env |-> env, err |-> e, res |-> NoResponse]
  /\ UNCHANGED <<repoVars, connVars, sd, vt, pg>>

\* res.status(statusCode).json(response)
EH_Send ==
  /\ eh.pc = "raised"
  /\ eh' = [eh EXCEPT !.pc = "sent", !.res = errorHandler(eh.env, eh.err)]
  /\ UNCHANGED <<repoVars, connVars, sd, vt, pg>>


\* ---- validators: status transitions

StatusNames == {"draft", "published", "archived"}
NoCheck == [st |-> "none", valid |-> FALSE, message |-> <<>>]
NoChecks == [c \in StatusNames |-> [n \in StatusNames |-> NoCheck]]

\* const invalidTransitions = { draft: ['archived'], archived: ['draft'] }
invalidTransitions ==
  [c \in {"draft", "archived"} |-> IF c = "draft" THEN <<"archived">> ELSE <<"draft">>]

getValidTransitions(status) ==
  CASE status = "draft" -> <<"published">>
    [] status = "published" -> <<"archived">>
    [] status = "archived" -> <<"published">>
    [] OTHER -> <<>>

\* Array.prototype.includes
arrayIncludes(arr, x) == \E i \in DOMAIN arr : arr[i] = x

\* invalidTransitions[currentStatus].includes(newStatus) throws a TypeError
\* when invalidTransitions has no entry for currentStatus
validateStatusTransition(currentStatus, newStatus) ==
  IF currentStatus \notin DOMAIN invalidTransitions
    THEN [st |-> "threw", valid |-> FALSE, message |-> <<>>]
  ELSE IF arrayIncludes(invalidTransitions[currentStatus], newStatus)
    THEN [st |-> "returned", valid |-> FALSE,
          message |-> <<"cannot", currentStatus, newStatus>>
                        \o getValidTransitions(currentStatus)]
  ELSE [st |-> "returned", valid |-> TRUE, message |-> <<"valid">>]

\* the service layer checks one transition
VT_Check ==
  /\ \E c \in StatusNames, n \in StatusNames :
       /\ vt[c][n].st = "none"
       /\ vt' = [vt EXCEPT ![c][n] = validateStatusTransition(c, n)]
  /\ UNCHANGED <<repoVars, connVars, eh, sd, pg>>

\* no page has been collected
NoWalk == [limit |-> 0, totalPages |-> 0, got |-> {}]

\* no signal has been received
NoShutdown == [signals |-> 0, isShuttingDown |-> FALSE, timeout |-> "none",
               manager |-> 0, app |-> "none"]

ConnInit ==
  /\ mongoUri \in Uris
  /\ testMode \in BOOLEAN
  /\ isConnecting = FALSE
  /\ isConnected = FALSE
  /\ connectionPromise = 0
  /\ readyState = 0
  /\ lost = FALSE
  /\ chain = [k \in Call |-> NoChain]
  /\ calls = [c \in Call |-> NoCall]
  /\ timers = 0
  /\ disc = "none"
  /\ nDisc = 0
  /\ proc = "running"
  /\ server = "none"
  /\ eh = NoHandled
  /\ sd = NoShutdown
  /\ vt = NoChecks
  /\ pg = NoWalk

RepoUnchanged == UNCHANGED repoVars /\ HandlerUnchanged

UsedCalls == {c \in Call : calls[c].st # "unused"}
InFlight == {k \in Call : chain[k].st = "attempt"}
Unsettled == {k \in Call : chain[k].st \in {"attempt", "backoff"}}

\* what the promise returned to call c has done so far
Outcome(c) ==
  IF calls[c].st \in {"unused", "resolved", "configError"} THEN calls[c].st
  ELSE chain[calls[c].chain].settled

\* mongoose.connect() is called: a connection that is neither open nor opening
\* starts opening
readyStateOnOpen == IF readyState = 0 THEN 2 ELSE readyState

alreadyConnected_Connecting == isConnected /\ readyState = 2
\* the second test of connectDB: isConnected && readyState === 1
alreadyConnected == isConnected /\ readyState = 1

\* the first test of connectDB: isConnecting && connectionPromise
alreadyConnecting == isConnecting /\ connectionPromise # 0

\* the 'disconnected' listener: isConnected = false, and outside test mode with
\* no attempt marked in progress a reconnection check is scheduled in 5000 ms
schedulesWatchdog_AnyMode == ~isConnecting
schedulesWatchdog == ~testMode /\ ~isConnecting
onDisconnected ==
  /\ isConnected' = FALSE
  /\ timers' = IF schedulesWatchdog THEN timers + 1 ELSE timers
TimerRoom == schedulesWatchdog => timers < MaxTimers

\* nothing runs once the process has exited
Alive == proc = "running"

\* connectDB() called from outside (retryCount = 0) as call c
connectDB(c, who) ==
  /\ calls[c].st = "unused"
  /\ c \in WatchdogCall <=> who = "watchdog"
  /\ \A d \in Call : (d < c /\ (d \in WatchdogCall <=> c \in WatchdogCall)) =>
                        calls[d].st # "unused"
  /\ IF alreadyConnecting
       THEN /\ calls' = [calls EXCEPT ![c] = [NoCall EXCEPT !.st = "joined", !.by = who,
                                                            !.chain = connectionPromise]]
            /\ UNCHANGED <<isConnecting, connectionPromise, readyState, chain>>
     ELSE IF alreadyConnected
       THEN /\ calls' = [calls EXCEPT ![c] = [NoCall EXCEPT !.st = "resolved", !.by = who]]
            /\ UNCHANGED <<isConnecting, connectionPromise, readyState, chain>>
     ELSE IF ~validateConnectionUri(mongoUri)
       THEN /\ calls' = [calls EXCEPT ![c] = [NoCall EXCEPT !.st = "configError", !.by = who]]
            /\ UNCHANGED <<isConnecting, connectionPromise, readyState, chain>>
     ELSE /\ isConnecting' = TRUE
          /\ connectionPromise' = c
          /\ chain' = [chain EXCEPT ![c] = [NoChain EXCEPT !.st = "attempt"]]
          /\ readyState' = readyStateOnOpen
          /\ calls' = [calls EXCEPT ![c] = [NoCall EXCEPT !.st = "started", !.by = who,
                                                           !.chain = c]]
  /\ UNCHANGED <<mongoUri, testMode, lost>>
  /\ RepoUnchanged

\* a caller (a test, application code) calls connectDB()
Connect(c) ==
  /\ Alive
  /\ connectDB(c, "caller")
  /\ UNCHANGED <<isConnected, timers, disc, nDisc, proc, server>>

\* mongoose.connect resolves: the connection is open, the 'connected'
\* listener has run, and the code after the await runs; a close() that was
\* waiting for the connection to open starts closing it
AttemptSucceeds(k) ==
  /\ Alive
  /\ chain[k].st = "attempt"
  /\ IF disc = "waiting" THEN readyState' = 3 /\ disc' = "closing"
                         ELSE readyState' = 1 /\ disc' = disc
  /\ lost' = FALSE
  /\ isConnected' = TRUE
  /\ isConnecting' = FALSE
  /\ chain' = [chain EXCEPT ![k].st = "resolved",
                            ![k].settled = IF @ = "pending" THEN "resolved" ELSE @]
  /\ UNCHANGED <<mongoUri, testMode, connectionPromise, calls, timers, nDisc, proc, server>>
  /\ RepoUnchanged

returnRetry_Dropped(inner) == "resolved"
\* return connectDB(retryCount + 1): the promise of this attempt follows the
\* promise of the retry
returnRetry(inner) == inner

\* the catch block without isConnecting = false
AttemptFails_KeepsConnecting(k, e) ==
  /\ Alive
  /\ chain[k].st = "attempt"
  /\ e = errorOf(chain[k].retryCount + 1)
  /\ IF readyState = 2
       THEN TimerRoom /\ readyState' = 0
            /\ timers' = IF schedulesWatchdog THEN timers + 1 ELSE timers
       ELSE UNCHANGED <<readyState, timers>>
  /\ isConnected' = IF readyState = 2 \/ disc = "waiting" THEN FALSE ELSE isConnected
  /\ isConnecting' = isConnecting
  /\ chain' = [chain EXCEPT ![k] =
       IF shouldRetry(chain[k].retryCount)
         THEN [@ EXCEPT !.st = "backoff", !.lastErr = e,
                        !.delays = Append(@, calculateDelay(chain[k].retryCount))]
         ELSE [@ EXCEPT !.st = "rejected", !.lastErr = e, !.error = finalError(e),
                        !.settled = IF @ = "pending" THEN "rejected" ELSE @]]
  /\ IF disc = "waiting" THEN connectionPromise' = 0 /\ disc' = "none"
                         ELSE UNCHANGED <<connectionPromise, disc>>
  /\ UNCHANGED <<mongoUri, testMode, lost, calls, nDisc, proc, server>>
  /\ RepoUnchanged

\* mongoose.connect rejects with message e: a connection that was opening is
\* disconnected ('disconnected' listener), then the catch block runs; a
\* close() that was waiting for the connection finds it closed, and
\* disconnectDB resumes
AttemptFails(k, e) ==
  /\ Alive
  /\ chain[k].st = "attempt"
  /\ e = errorOf(chain[k].retryCount + 1)
  /\ IF readyState = 2
       THEN TimerRoom /\ readyState' = 0
            /\ timers' = IF schedulesWatchdog THEN timers + 1 ELSE timers
       ELSE UNCHANGED <<readyState, timers>>
  /\ isConnected' = IF readyState = 2 \/ disc = "waiting" THEN FALSE ELSE isConnected
  /\ isConnecting' = FALSE
  /\ chain' = [chain EXCEPT ![k] =
       IF shouldRetry(chain[k].retryCount)
         THEN [@ EXCEPT !.st = "backoff", !.lastErr = e,
                        !.delays = Append(@, calculateDelay(chain[k].retryCount))]
         ELSE [@ EXCEPT !.st = "rejected", !.lastErr = e, !.error = finalError(e),
                        !.settled = IF @ = "pending" THEN "rejected" ELSE @]]
  /\ IF disc = "waiting" THEN connectionPromise' = 0 /\ disc' = "none"
                         ELSE UNCHANGED <<connectionPromise, disc>>
  /\ UNCHANGED <<mongoUri, testMode, lost, calls, nDisc, proc, server>>
  /\ RepoUnchanged

\* the backoff timer fires: connectionPromise = null, then the recursive
\* connectDB(retryCount + 1), whose first test reads the null just written
BackoffFires(k) ==
  /\ Alive
  /\ chain[k].st = "backoff"
  /\ IF isConnecting /\ FALSE
       THEN UNCHANGED <<chain, connectionPromise, isConnecting, readyState>>
     ELSE IF alreadyConnected
       THEN /\ chain' = [chain EXCEPT ![k].st = "resolved",
                           ![k].settled = IF @ = "pending" THEN returnRetry("resolved") ELSE @]
            /\ connectionPromise' = 0
            /\ UNCHANGED <<isConnecting, readyState>>
     ELSE IF ~validateConnectionUri(mongoUri)
       THEN /\ chain' = [chain EXCEPT ![k].st = "rejected", ![k].error = ConfigError,
                           ![k].settled = IF @ = "pending" THEN returnRetry("rejected") ELSE @]
            /\ connectionPromise' = 0
            /\ UNCHANGED <<isConnecting, readyState>>
     ELSE /\ isConnecting' = TRUE
          /\ connectionPromise' = k
          /\ chain' = [chain EXCEPT ![k].st = "attempt", ![k].retryCount = @ + 1,
                           ![k].settled = IF @ = "pending" THEN returnRetry("pending") ELSE @]
          /\ readyState' = readyStateOnOpen
  /\ UNCHANGED <<mongoUri, testMode, isConnected, lost, calls, timers, disc, nDisc, proc, server>>
  /\ RepoUnchanged

\* the open connection is lost: 'disconnected' is emitted
Disconnected ==
  /\ Alive
  /\ readyState = 1
  /\ TimerRoom
  /\ readyState' = 0
  /\ lost' = TRUE
  /\ onDisconnected
  /\ UNCHANGED <<mongoUri, testMode, isConnecting, connectionPromise, chain, calls,
                 disc, nDisc, proc, server>>
  /\ RepoUnchanged

\* the driver regains a lost connection by itself: 'connected' is emitted
Reconnected ==
  /\ Alive
  /\ lost /\ readyState = 0
  /\ readyState' = 1
  /\ lost' = FALSE
  /\ isConnected' = TRUE
  /\ UNCHANGED <<mongoUri, testMode, isConnecting, connectionPromise, chain, calls, timers,
                 disc, nDisc, proc, server>>
  /\ RepoUnchanged

\* what the .catch of the watchdog's connectDB() does with a rejection
watchdogCatch_Exit(p) == "exit1"
watchdogCatch(p) == p

\* the timer stays armed (setInterval)
WatchdogFires_Rearms ==
  /\ Alive
  /\ timers > 0
  /\ timers' = timers
  /\ IF ~isConnected /\ ~isConnecting
       THEN \E c \in Call : connectDB(c, "watchdog")
       ELSE UNCHANGED <<mongoUri, testMode, isConnecting, connectionPromise, readyState,
                        lost, chain, calls>> /\ RepoUnchanged
  /\ UNCHANGED <<isConnected, disc, nDisc, proc, server>>

\* the 5000 ms timer of the 'disconnected' listener fires
WatchdogFires ==
  /\ Alive
  /\ timers > 0
  /\ timers' = timers - 1
  /\ IF ~isConnected /\ ~isConnecting
       THEN \E c \in Call : connectDB(c, "watchdog")
       ELSE UNCHANGED <<mongoUri, testMode, isConnecting, connectionPromise, readyState,
                        lost, chain, calls>> /\ RepoUnchanged
  /\ UNCHANGED <<isConnected, disc, nDisc, proc, server>>

\* connectDB().catch(err => logger.error(...)) of the watchdog: the rejection
\* of its call is logged
WatchdogCatch(c) ==
  /\ Alive
  /\ calls[c].by = "watchdog" /\ ~calls[c].caught
  /\ Outcome(c) \in {"rejected", "configError"}
  /\ calls' = [calls EXCEPT ![c].caught = TRUE]
  /\ proc' = watchdogCatch(proc)
  /\ UNCHANGED <<mongoUri, testMode, isConnecting, isConnected, connectionPromise, readyState,
                 lost, chain, timers, disc, nDisc, server>>
  /\ RepoUnchanged


\* disconnectDB() is called: with readyState 0 it returns at once; otherwise it
\* awaits mongoose.connection.close(), which starts closing an open
\* connection and waits for a connection that is still opening
Disconnect ==
  /\ Alive
  /\ disc = "none" /\ nDisc < MaxDisconnects
  /\ nDisc' = nDisc + 1
  /\ IF readyState = 0 THEN UNCHANGED <<disc, readyState>>
     ELSE IF readyState = 2 THEN disc' = "waiting" /\ UNCHANGED readyState
     ELSE disc' = "closing" /\ readyState' = 3
  /\ UNCHANGED <<mongoUri, testMode, isConnecting, isConnected, connectionPromise, lost,
                 chain, calls, timers, proc, server>>
  /\ RepoUnchanged

CloseDone_KeepsConnecting ==
  /\ Alive
  /\ disc = "closing"
  /\ readyState # 0 => TimerRoom
  /\ readyState' = 0
  /\ timers' = IF readyState # 0 /\ schedulesWatchdog THEN timers + 1 ELSE timers
  /\ isConnected' = FALSE
  /\ connectionPromise' = 0
  /\ lost' = FALSE
  /\ disc' = "none"
  /\ UNCHANGED <<mongoUri, testMode, isConnecting, chain, calls, nDisc, proc, server>>
  /\ RepoUnchanged

\* close() completes: readyState 0, the 'disconnected' and 'close' listeners
\* run, then disconnectDB resets the flags and the promise and returns
CloseDone ==
  /\ Alive
  /\ disc = "closing"
  /\ readyState # 0 => TimerRoom
  /\ readyState' = 0
  /\ timers' = IF readyState # 0 /\ schedulesWatchdog THEN timers + 1 ELSE timers
  /\ isConnected' = FALSE
  /\ isConnecting' = FALSE
  /\ connectionPromise' = 0
  /\ lost' = FALSE
  /\ disc' = "none"
  /\ UNCHANGED <<mongoUri, testMode, chain, calls, nDisc, proc, server>>
  /\ RepoUnchanged

\* server.js, startServer: await connectDB() when the process starts
StartServer ==
  /\ Alive
  /\ UsedCalls = {} /\ nDisc = 0
  /\ connectDB(1, "startServer")
  /\ UNCHANGED <<isConnected, timers, disc, nDisc, proc, server>>

startServerNext_ListenAnyway(outcome) == "listen"
\* startServer after the await: app.listen when connectDB() resolved,
\* process.exit(1) in the catch when it rejected
startServerNext(outcome) == IF outcome = "resolved" THEN "listen" ELSE "exit1"

\* startServer resumes; app.listen can fail (port in use), which exits too
StartServerResumes(c) ==
  /\ Alive
  /\ calls[c].by = "startServer" /\ ~calls[c].caught
  /\ Outcome(c) # "pending"
  /\ calls' = [calls EXCEPT ![c].caught = TRUE]
  /\ \/ startServerNext(Outcome(c)) = "listen" /\ server' = "listening" /\ proc' = proc
     \/ startServerNext(Outcome(c)) = "listen" /\ server' = server /\ proc' = "exit1"
     \/ startServerNext(Outcome(c)) = "exit1" /\ server' = server /\ proc' = "exit1"
  /\ UNCHANGED <<mongoUri, testMode, isConnecting, isConnected, connectionPromise, readyState,
                 lost, chain, timers, disc, nDisc>>
  /\ RepoUnchanged

\* ---- graceful shutdown: the SIGTERM / SIGINT handlers of database.js and of
\* server.js, which both run on every signal, in the order of registration

\* mongoose.connection.close() is called: an open connection starts closing
closeCalled(rs) == IF rs = 1 THEN 3 ELSE rs

\* gracefulShutdown of server.js up to its first wait: server.close() when
\* the server exists, else disconnectDB()
appShutdown(d, srv, rs) ==
  IF d.isShuttingDown THEN d
  ELSE [d EXCEPT !.isShuttingDown = TRUE, !.timeout = "armed",
                 !.app = IF srv = "listening" THEN "closing"
                         ELSE IF rs # 0 THEN "disconnecting" ELSE "disconnected"]

\* a signal arrives after startServer was called, with no connection attempt
\* in flight: gracefulShutdown of database.js calls
\* mongoose.connection.close() and waits for it, then gracefulShutdown of
\* server.js runs up to its first wait; a close() that finds nothing to
\* close resolves at once, and the continuation in database.js resets the
\* flags and exits
Signal ==
  /\ Alive
  /\ sd.signals < MaxSignals
  /\ UsedCalls # {} /\ InFlight = {} /\ disc = "none"
  /\ readyState' = closeCalled(readyState)
  /\ sd' = [appShutdown(sd, server, readyState') EXCEPT !.signals = @ + 1,
                                                         !.manager = @ + 1]
  /\ server' = IF ~sd.isShuttingDown /\ server = "listening" THEN "closing" ELSE server
  /\ IF readyState' = 0
       THEN /\ isConnected' = FALSE /\ isConnecting' = FALSE /\ connectionPromise' = 0
            /\ proc' = "exit0"
       ELSE UNCHANGED <<isConnected, isConnecting, connectionPromise, proc>>
  /\ UNCHANGED <<mongoUri, testMode, lost, chain, calls, timers, disc, nDisc>>
  /\ UNCHANGED repoVars /\ UNCHANGED <<eh, vt, pg>>

\* the connection is closed (the 'disconnected' listener runs) and the
\* continuation of a waiting gracefulShutdown of database.js runs: flags
\* reset, process.exit(0)
ManagerCloseDone ==
  /\ Alive
  /\ sd.manager > 0
  /\ readyState # 0 => TimerRoom
  /\ readyState' = 0
  /\ timers' = IF readyState # 0 /\ schedulesWatchdog THEN timers + 1 ELSE timers
  /\ isConnected' = FALSE
  /\ isConnecting' = FALSE
  /\ connectionPromise' = 0
  /\ lost' = FALSE
  /\ proc' = "exit0"
  /\ UNCHANGED <<mongoUri, testMode, chain, calls, disc, nDisc, server, sd>>
  /\ UNCHANGED repoVars /\ UNCHANGED <<eh, vt, pg>>

\* the HTTP server has closed: the callback of server.close() calls
\* disconnectDB(), which returns at once when readyState is 0
ServerClosed ==
  /\ Alive
  /\ sd.app = "closing"
  /\ server' = "closed"
  /\ sd' = [sd EXCEPT !.app = IF readyState # 0 THEN "disconnecting" ELSE "disconnected"]
  /\ UNCHANGED <<mongoUri, testMode, isConnecting, isConnected, connectionPromise, readyState,
                 lost, chain, calls, timers, disc, nDisc, proc>>
  /\ UNCHANGED repoVars /\ UNCHANGED <<eh, vt, pg>>

\* the close that disconnectDB() of the server.js shutdown waits for is done:
\* flags reset, clearTimeout, process.exit(0)
AppCloseDone ==
  /\ Alive
  /\ sd.app = "disconnecting"
  /\ readyState # 0 => TimerRoom
  /\ readyState' = 0
  /\ timers' = IF readyState # 0 /\ schedulesWatchdog THEN timers + 1 ELSE timers
  /\ isConnected' = FALSE
  /\ isConnecting' = FALSE
  /\ connectionPromise' = 0
  /\ lost' = FALSE
  /\ sd' = [sd EXCEPT !.app = "disconnected", !.timeout = "cleared"]
  /\ proc' = "exit0"
  /\ UNCHANGED <<mongoUri, testMode, chain, calls, disc, nDisc, server>>
  /\ UNCHANGED repoVars /\ UNCHANGED <<eh, vt, pg>>

\* the 10000 ms timer of the server.js shutdown fires: process.exit(1)
ForcedExit ==
  /\ Alive
  /\ sd.timeout = "armed"
  /\ sd' = [sd EXCEPT !.timeout = "fired"]
  /\ proc' = "exit1"
  /\ UNCHANGED <<mongoUri, testMode, isConnecting, isConnected, connectionPromise, readyState,
                 lost, chain, calls, timers, disc, nDisc, server>>
  /\ UNCHANGED repoVars /\ UNCHANGED <<eh, vt, pg>>


\* ------------------------------------------------------------------ getPosts
skipOf_PageTimesLimit(page, limit) == page * limit
\* const skip = (page - 1) * limit
skipOf(page, limit) == (page - 1) * limit

\* Math.ceil(total / limit)
ceilDiv(a, b) == IF a % b = 0 THEN a \div b ELSE a \div b + 1

\* getPosts up to the first await: page < 1 and limit < 1 answer 400
LP_Request(q) ==
  /\ lq.pc = "idle"
  /\ lq' = IF pageOf(q) < 1 \/ limitOf(q) < 1
             THEN [NoList EXCEPT !.pc = "done", !.page = q.page, !.limit = q.limit,
                                 !.res = "badRequest"]
             ELSE [NoList EXCEPT !.pc = "find", !.page = q.page, !.limit = q.limit,
                                 !.effPage = pageOf(q), !.effLimit = limitOf(q)]
  /\ UNCHANGED <<posts, comments, postSeq, commentSeq, rq, tx, gh, faulty, docs>>
  /\ ConnUnchanged

LP_Call == lq.pc = "idle" /\ \E q \in Queries : LP_Request(q)
LP_Paged == lq.pc = "idle" /\ \E q \in PageQueries : LP_Request(q)

\* await Post.find().sort().skip().limit().lean()
LP_Find ==
  /\ lq.pc = "find"
  /\ \/ faulty /\ lq' = [lq EXCEPT !.pc = "done", !.res = "error", !.effPage = 0,
                                     !.effLimit = 0]
     \/ lq' = [lq EXCEPT !.pc = "count", !.seen = posts,
                          !.items = limitN(skipN(newestFirst(posts),
                                                 skipOf(lq.effPage, lq.effLimit)),
                                           lq.effLimit)]
  /\ UNCHANGED <<posts, comments, postSeq, commentSeq, rq, tx, gh, faulty, docs>>
  /\ ConnUnchanged

\* await Post.countDocuments(), then the response with the pagination block
LP_Count ==
  /\ lq.pc = "count"
  /\ \/ faulty /\ lq' = [lq EXCEPT !.pc = "done", !.res = "error", !.effPage = 0,
                                     !.effLimit = 0, !.items = <<>>, !.seen = {}]
     \/ lq' = [lq EXCEPT !.pc = "done", !.res = "ok", !.total = Cardinality(posts),
                          !.totalPages = ceilDiv(Cardinality(posts), lq.effLimit),
                          !.quiet = (posts = lq.seen)]
  /\ UNCHANGED <<posts, comments, postSeq, commentSeq, rq, tx, gh, faulty, docs>>
  /\ ConnUnchanged

\* ---- a client pages through getPosts with one limit, a request at a time

\* the next getPosts request: the limit of the earlier ones, a page not yet
\* collected
PG_Request ==
  /\ lq.pc = "idle"
  /\ Cardinality(pg.got) < MaxFetches
  /\ \E q \in PageQueries :
       /\ pg.limit # 0 => limitOf(q) = pg.limit
       /\ \A g \in pg.got : g.page # pageOf(q)
       /\ LP_Request(q)

\* the client reads the response: the posts of the page and totalPages
PG_Collect ==
  /\ lq.pc = "done"
  /\ pg' = IF lq.res = "ok"
             THEN [limit |-> lq.effLimit, totalPages |-> lq.totalPages,
                   got |-> pg.got \cup {[page |-> lq.effPage, items |-> lq.items]}]
             ELSE pg
  /\ lq' = NoList
  /\ UNCHANGED <<posts, comments, postSeq, commentSeq, rq, tx, gh, faulty, docs>>
  /\ UNCHANGED connVars /\ UNCHANGED <<eh, sd, vt>>

\* ------------------------------------------------------------ specification
ReadStep(r) ==
  \/ GP_Call(r) \/ GP_Find(r)
  \/ GC_Call(r) \/ GC_Find(r)
  \/ GCP_Call(r) \/ GCP_Post(r) \/ GCP_Fetch(r)

DeletePostStep(r) ==
  \/ DP_Call(r) \/ DP_Session(r) \/ DP_Find(r) \/ DP_Abort(r) \/ DP_DeleteMany(r)
  \/ DP_Commit(r) \/ DP_Catch(r) \/ DP_Finally(r)

WriteStep(r) ==
  \/ CP_Call(r) \/ CP_Save(r)
  \/ CC_Call(r) \/ CC_Lookup(r) \/ CC_Validate(r) \/ CC_Insert(r)
  \/ DC_Call(r) \/ DC_Find(r) \/ DC_Delete(r)
  \/ DeletePostStep(r)

ConnStep ==
  \/ \E c \in Call : Connect(c)
  \/ \E k \in Call : AttemptSucceeds(k)
  \/ \E k \in Call, e \in Errs : AttemptFails(k, e)
  \/ \E k \in Call : BackoffFires(k)
  \/ Disconnected
  \/ Reconnected

vars == <<posts, comments, postSeq, commentSeq, rq, tx, gh, faulty, lq, docs,
          mongoUri, testMode, isConnecting, isConnected, connectionPromise, readyState,
          lost, chain, calls, timers, disc, nDisc, proc, server, eh, sd, vt, pg>>

\* the repository is studied over an idle connection manager
ConnIdle == ConnInit /\ mongoUri = SchemeMongo \o HostPart /\ testMode
Init == RepoInit /\ ConnIdle

\* requests interleave at their store calls: a deletePost of client 1 runs
\* against the writes of the other clients
RepoNext == DeletePostStep(1) \/ \E r \in Req \ {1} : WriteStep(r)
RepoSpec == Init /\ [][RepoNext]_vars

\* one client, one request at a time
SeqNext == WriteStep(1) \/ ReadStep(1)
SeqSpec == Init /\ [][SeqNext]_vars

\* one getPosts request
ListNext == LP_Call \/ LP_Find \/ LP_Count
ListSpec == Init /\ [][ListNext]_vars

\* one getPosts request with a numeric page and limit, against the createPost
\* requests of another client
PageNext == LP_Paged \/ LP_Find \/ LP_Count \/ CP_Call(2) \/ CP_Save(2)
PageSpec == Init /\ [][PageNext]_vars

\* one client updates posts, with any body, in a store that holds MaxPosts
\* posts and a comment on the first
PlainPost == newPost([title |-> Str(1, 1), content |-> Str(1, 1), author |-> Str(1, 1),
                      status |-> "undef"])
UpdateInit ==
  /\ posts = PostIds
  /\ docs = [i \in PostIds |-> PlainPost]
  /\ postSeq = MaxPosts
  /\ comments = {[id |-> 1, pid |-> 1]}
  /\ commentSeq = 1
  /\ rq = [r \in Req |-> IdleRq]
  /\ tx = [r \in Req |-> NoTx]
  /\ gh = [r \in Req |-> NoGh]
  /\ lq = NoList
  /\ faulty \in BOOLEAN
  /\ ConnIdle
UpdateNext == UP_Any(1) \/ UP_Find(1) \/ UP_Save(1)
UpdateSpec == UpdateInit /\ [][UpdateNext]_vars

\* two clients delete posts against each other, in a store that holds
\* MaxPosts posts and up to MaxComments comments
RaceInit ==
  /\ posts = PostIds
  /\ docs = [i \in PostIds |-> PlainPost]
  /\ postSeq = MaxPosts
  /\ \E n \in 0..MaxComments : \E f \in [1..n -> PostIds] :
       /\ comments = {[id |-> c, pid |-> f[c]] : c \in 1..n}
       /\ commentSeq = n
  /\ rq = [r \in Req |-> IdleRq]
  /\ tx = [r \in Req |-> NoTx]
  /\ gh = [r \in Req |-> NoGh]
  /\ lq = NoList
  /\ faulty \in BOOLEAN
  /\ ConnIdle
RaceNext == DeletePostStep(1) \/ DeletePostStep(2)
RaceSpec == RaceInit /\ [][RaceNext]_vars

\* one client deletes comments and posts, the other deletes and updates
\* comments, in the store of RaceInit
CommentRaceNext ==
  \/ (Free(1) /\ DC_Call(1)) \/ DC_Find(1) \/ DC_Delete(1)
  \/ DeletePostStep(1)
  \/ (Free(2) /\ DC_Call(2)) \/ DC_Find(2) \/ DC_Delete(2)
  \/ UC_Call(2) \/ UC_Find(2) \/ UC_Update(2)
CommentRaceSpec == RaceInit /\ [][CommentRaceNext]_vars

\* one client creates posts, with any body, and stops at the first createPost
\* that does not succeed
CreateNext == (~Stopped(1) /\ CP_Any(1)) \/ CP_Save(1)
CreateSpec == Init /\ [][CreateNext]_vars

\* one client creates posts with any body, updates and deletes them, and stops
\* at the first createPost that does not succeed
PostNext ==
  \/ (~Stopped(1) /\ CP_Any(1)) \/ CP_Save(1)
  \/ (~Stopped(1) /\ UP_Call(1)) \/ UP_Find(1) \/ UP_Save(1)
  \/ (~Stopped(1) /\ DP_Call(1)) \/ DP_Session(1) \/ DP_Find(1) \/ DP_Abort(1)
  \/ DP_DeleteMany(1) \/ DP_Commit(1) \/ DP_Catch(1) \/ DP_Finally(1)
PostSpec == Init /\ [][PostNext]_vars

\* one client creates posts and comments and lists the comments of a post
CommentListNext ==
  \/ CP_Call(1) \/ CP_Save(1)
  \/ CC_Call(1) \/ CC_Lookup(1) \/ CC_Validate(1) \/ CC_Insert(1)
  \/ GCP_Paged(1) \/ GCP_Post(1) \/ GCP_Fetch(1)
CommentListSpec == Init /\ [][CommentListNext]_vars

\* the connection manager is studied over an idle repository
RepoIdle == RepoInit /\ ~faulty
ConnSpecInit == ConnInit /\ RepoIdle

\* callers, the watchdog and the connection events interleave freely
ConnNext ==
  \/ ConnStep
  \/ WatchdogFires
  \/ \E c \in Call : WatchdogCatch(c)
  \/ Disconnect
  \/ CloseDone
  \/ StartServer
  \/ \E c \in Call : StartServerResumes(c)
ConnSpec == ConnSpecInit /\ [][ConnNext]_vars

\* every connectDB() call, from a caller or from the watchdog, is made before
\* disconnectDB() is called; nothing but the pending attempts, the backoff
\* timers and the close runs afterwards
QuietNext ==
  \/ (nDisc = 0 /\ \E c \in Call : Connect(c))
  \/ (nDisc = 0 /\ WatchdogFires)
  \/ (nDisc = 0 /\ Disconnected)
  \/ \E k \in Call : AttemptSucceeds(k)
  \/ \E k \in Call, e \in Errs : AttemptFails(k, e)
  \/ \E k \in Call : BackoffFires(k)
  \/ Disconnect
  \/ CloseDone
QuietSpec == ConnSpecInit /\ [][QuietNext]_vars

\* the process starts, and SIGTERM / SIGINT arrive while no connection
\* attempt is in flight
ShutdownNext ==
  \/ StartServer
  \/ \E k \in Call : AttemptSucceeds(k)
  \/ \E k \in Call, e \in Errs : AttemptFails(k, e)
  \/ \E k \in Call : BackoffFires(k)
  \/ \E c \in Call : StartServerResumes(c)
  \/ Signal
  \/ ManagerCloseDone
  \/ ServerClosed
  \/ AppCloseDone
  \/ ForcedExit
ShutdownSpec == ConnSpecInit /\ [][ShutdownNext]_vars

\* the status-transition validator is called on every pair of statuses
TransitionInit == RepoIdle /\ ConnInit /\ mongoUri = SchemeMongo \o HostPart
TransitionNext == VT_Check
TransitionSpec == TransitionInit /\ [][TransitionNext]_vars

\* posts were created and none is written while a client pages through them
WalkInit ==
  /\ \E n \in 0..MaxPosts :
       /\ posts = 1..n
       /\ docs = [i \in PostIds |-> IF i <= n THEN PlainPost ELSE NoDoc]
       /\ postSeq = n
  /\ comments = {} /\ commentSeq = 0
  /\ rq = [r \in Req |-> IdleRq]
  /\ tx = [r \in Req |-> NoTx]
  /\ gh = [r \in Req |-> NoGh]
  /\ lq = NoList
  /\ faulty \in BOOLEAN
  /\ ConnIdle
WalkNext == PG_Request \/ LP_Find \/ LP_Count \/ PG_Collect
WalkSpec == WalkInit /\ [][WalkNext]_vars

\* the error handler is studied over an idle repository and connection manager
ErrorInit == RepoIdle /\ ConnInit /\ mongoUri = SchemeMongo \o HostPart
ErrorNext == EH_Raise \/ EH_Send
ErrorSpec == ErrorInit /\ [][ErrorNext]_vars

\* every connection attempt settles (serverSelectionTimeoutMS bounds it) and
\* every backoff timer fires
ConnFair ==
  \A k \in Call :
    /\ WF_vars(AttemptSucceeds(k) \/ \E e \in Errs : AttemptFails(k, e))
    /\ WF_vars(BackoffFires(k))
\* callers, the watchdog and the connection events, with no disconnectDB()
\* and no startServer
WaitNext == ConnStep \/ WatchdogFires
WaitSpec == ConnSpecInit /\ [][WaitNext]_vars /\ ConnFair

\* a caller calls connectDB() only while no earlier call is unsettled and no
\* watchdog timer is pending: every call runs with no other caller
ConnectSolo(c) == Unsettled = {} /\ timers = 0 /\ Connect(c)
WatchdogSolo == Unsettled = {} /\ WatchdogFires
SoloNext ==
  \/ \E c \in Call : ConnectSolo(c)
  \/ \E k \in Call : AttemptSucceeds(k)
  \/ \E k \in Call, e \in Errs : AttemptFails(k, e)
  \/ \E k \in Call : BackoffFires(k)
  \/ Disconnected
  \/ Reconnected
  \/ WatchdogSolo
SoloSpec == ConnSpecInit /\ [][SoloNext]_vars

\* ================================================================ properties
\* a step of request r while it runs operation o
StepOf(r, o) == rq[r].op = o /\ Running(r) /\ rq'[r] # rq[r]
OtherComments(cs, p) == {c \in cs : c.pid # p}

\* C1: deletePost(P) is all-or-nothing. Every step of a deletePost, on every
\* path (success, NotFound, a failed delete, a failed commit), either leaves
\* the stored posts and comments as they are, or removes P together with
\* every comment of P that was stored when deletePost was called and is still
\* stored, and nothing else: no step removes P alone or comments alone.
DeletePostAllOrNothing ==
  [][\A r \in Req :
       StepOf(r, "deletePost") =>
         \/ posts' = posts /\ comments' = comments
         \/ /\ rq[r].id \in posts
            /\ posts' = posts \ {rq[r].id}
            /\ comments' \subseteq comments
            /\ OtherComments(comments', rq[r].id) = OtherComments(comments, rq[r].id)
            /\ \A c \in comments' : c.id \notin gh[r].pre]_vars

\* a deletePost has just committed the removal of a post that had comments
\* when it was called, while another request is under way
DeletePostCommitted ==
  /\ rq[1].op = "deletePost" /\ rq[1].pc = "dp_finally" /\ rq[1].res = "ok"
  /\ gh[1].pre # {} /\ rq[1].cnt >= 1
  /\ rq[1].id \notin posts
  /\ \E q \in Req \ {1} : Running(q)

\* C2: a Comment never outlives its Post: every stored comment's postId
\* refers to a stored post, under any interleaving of createComment,
\* deletePost and deleteComment.
NoOrphanComment == \A c \in comments : c.pid \in posts

\* C3: when deletePost(P) is called for a stored post P with N comments, runs
\* alone and no store call fails, it succeeds with deletedCommentCount = N;
\* afterwards getPost(P) and listCommentsByPost(P) answer NotFound and no
\* comment of P can be fetched by id; the steps of the request leave every
\* other post and every comment of another post as they were.
DeletePostDone(r) == rq[r].op = "deletePost" /\ rq[r].pc = "done"

DeletePostCascadeResult ==
  (DeletePostDone(1) /\ gh[1].stored /\ ~faulty) =>
    /\ rq[1].res = "ok"
    /\ rq[1].cnt = Cardinality(gh[1].pre)
    /\ getPostById(rq[1].id) = "notFound"
    /\ getCommentsByPost(rq[1].id) = "notFound"
    /\ CommentsOf(comments, rq[1].id) = {}
    /\ \A c \in gh[1].pre : getCommentById(c) = "notFound"

DeletePostCascade ==
  /\ []DeletePostCascadeResult
  /\ [][StepOf(1, "deletePost") =>
          /\ posts' \ {rq[1].id} = posts \ {rq[1].id}
          /\ OtherComments(comments', rq[1].id) = OtherComments(comments, rq[1].id)]_vars

\* a post with two comments has been deleted and another post is still stored
DeletePostCascaded ==
  /\ DeletePostDone(1) /\ gh[1].stored /\ ~faulty
  /\ rq[1].res = "ok" /\ rq[1].cnt = 2
  /\ posts # {}

\* C4: deletePost(id) for a well-formed id with no stored post answers
\* NotFound (no store call failing) and none of its steps changes the stored
\* posts or comments; so does a second deletePost of a post already deleted.
DeletePostMissingResult ==
  (DeletePostDone(1) /\ WellFormed(rq[1].id) /\ ~gh[1].stored /\ ~faulty) =>
    rq[1].res = "notFound"

DeletePostMissing ==
  /\ []DeletePostMissingResult
  /\ [][(StepOf(1, "deletePost") /\ ~gh[1].stored) =>
          (posts' = posts /\ comments' = comments)]_vars

\* a deletePost of a post that was stored once and has been deleted since
\* has answered NotFound
DeletePostTwice ==
  /\ DeletePostDone(1) /\ ~gh[1].stored /\ ~faulty
  /\ rq[1].id \in 1..postSeq /\ rq[1].id \notin posts
  /\ rq[1].res = "notFound"
  /\ posts # {} /\ comments # {}

\* C5 as stated: a createComment that reached its post lookup (authenticated,
\* content and postId present) and whose postId does not resolve to a stored
\* post answers NotFound.
CreateCommentUnresolvedIsNotFound ==
  [][(StepOf(1, "createComment") /\ rq'[1].pc = "done" /\ ~faulty
        /\ rq[1].id \notin posts)
       => rq'[1].res = "notFound"]_vars

\* C5, amended: a createComment that reached its post lookup answers NotFound
\* when its postId is well-formed and resolves to no stored post, and
\* BadRequest (invalid id) when its postId is malformed; no step of a
\* createComment that does not answer Created changes the stored posts or
\* comments; the step that inserts the comment follows a lookup that found
\* the post.
CreateCommentChecksPost ==
  /\ [][(StepOf(1, "createComment") /\ rq'[1].pc = "done" /\ ~faulty
           /\ rq[1].id \notin posts)
          => rq'[1].res = (IF WellFormed(rq[1].id) THEN "notFound" ELSE "badRequest")]_vars
  /\ [][\A r \in Req :
          (rq'[r].op = "createComment" /\ rq'[r] # rq[r] /\ rq'[r].res # "created")
            => (posts' = posts /\ comments' = comments)]_vars
  /\ [][\A r \in Req :
          (StepOf(r, "createComment") /\ comments' # comments)
            => (rq[r].found /\ rq'[r].res = "created")]_vars

\* a createComment for a well-formed id of no stored post has answered
\* NotFound while another post is stored
CreateCommentNotFound ==
  /\ rq[1].op = "createComment" /\ rq[1].pc = "done" /\ rq[1].res = "notFound"
  /\ WellFormed(rq[1].id) /\ rq[1].id \notin posts
  /\ posts # {} /\ ~faulty

\* C6: no duplicate concurrent connection attempts: at most one connection
\* attempt to the store is in flight at any time, also when a second connect()
\* is called while an earlier one is waiting out its backoff delay.
SingleAttemptInFlight == Cardinality(InFlight) <= 1

\* C7: a connect() made while disconnected, with no other caller, starts at
\* most 5 connection attempts; when all 5 fail it rejects with the connection
\* error that carries the message of the last underlying error, and nothing
\* is attempted after that; when an attempt succeeds nothing is attempted
\* after it and the step leaves connected = true and connecting = false.
BoundedRetryResult ==
  \A k \in Call :
    /\ chain[k].st # "unused" => chain[k].retryCount + 1 <= 5
    /\ chain[k].st = "rejected" =>
         /\ chain[k].retryCount + 1 = 5
         /\ chain[k].lastErr = <<"connect failed", 5>>
         /\ chain[k].error = <<"Failed to connect to MongoDB after", 5, "attempts",
                               chain[k].lastErr>>
         /\ \A c \in Call : calls[c].chain = k => Outcome(c) = "rejected"

BoundedRetry ==
  /\ []BoundedRetryResult
  /\ [][\A k \in Call :
          /\ chain[k].st \in {"resolved", "rejected"} => chain'[k] = chain[k]
          /\ (chain[k].st = "attempt" /\ chain'[k].st = "resolved") =>
               (isConnected' /\ ~isConnecting' /\ Outcome(k)' = "resolved")]_vars

\* a lone connect() has been rejected after its fifth failed attempt
RetriesExhausted ==
  \E k \in Call :
    /\ calls[k].by = "caller" /\ calls[k].st = "started"
    /\ chain[k].st = "rejected" /\ chain[k].retryCount = 4

\* C8: the delay waited after the failure of attempt a + 1 (a = 0..3) is
\* min(1000 * 2^a, 30000): 1000, 2000, 4000, 8000 ms in this order; the
\* delays never decrease, never exceed 30000, and no delay follows the fifth
\* failure.
IsPrefix(s, t) == Len(s) <= Len(t) /\ SubSeq(t, 1, Len(s)) = s

BackoffSchedule ==
  \A k \in Call :
    /\ IsPrefix(chain[k].delays, <<1000, 2000, 4000, 8000>>)
    /\ \A i \in 1..Len(chain[k].delays) :
         /\ chain[k].delays[i] <= 30000
         /\ i > 1 => chain[k].delays[i - 1] <= chain[k].delays[i]
    /\ chain[k].st = "backoff" => Len(chain[k].delays) = chain[k].retryCount + 1
    /\ chain[k].st \in {"attempt", "rejected"} => Len(chain[k].delays) = chain[k].retryCount
    /\ chain[k].st = "rejected" => Len(chain[k].delays) = 4

\* a retry sequence is waiting out its fourth delay
FourthBackoff ==
  \E k \in Call : chain[k].st = "backoff" /\ Len(chain[k].delays) = 4

\* C9: connect() is idempotent when connected: called while the connected
\* flag is true and the store reports readyState 1, it returns success at
\* once, starts no connection attempt and leaves the flags as they are.
CallMade(c) == calls[c].st = "unused" /\ calls'[c].st # "unused"

ConnectWhenConnected ==
  [][\A c \in Call :
       (CallMade(c) /\ isConnected /\ readyState = 1) =>
         /\ calls'[c].st = "resolved"
         /\ chain' = chain
         /\ isConnecting' = isConnecting /\ isConnected' = isConnected
         /\ connectionPromise' = connectionPromise /\ readyState' = readyState]_vars

\* a connect() made on an open connection has returned at once
ConnectedAtOnce ==
  \E c \in Call : calls[c].st = "resolved" /\ calls[c].by = "caller" /\ \E k \in Call : chain[k].st = "resolved"

\* C10: with a connection URI that is missing or begins with neither
\* 'mongodb://' nor 'mongodb+srv://', connect() fails with the configuration
\* error before any connection attempt: no attempt is ever started, and the
\* call leaves connecting, connected and the connection promise unchanged.
MissingOrMalformed(uri) ==
  \/ uri = <<>>
  \/ /\ ~startsWith(uri, <<"m", "o", "n", "g", "o", "d", "b", ":", "/", "/">>)
     /\ ~startsWith(uri, <<"m", "o", "n", "g", "o", "d", "b", "+", "s", "r", "v", ":", "/", "/">>)

BadUriRejected ==
  /\ [](MissingOrMalformed(mongoUri) =>
          /\ \A k \in Call : chain[k].st = "unused"
          /\ \A c \in Call : calls[c].st \in {"unused", "configError"})
  /\ [][\A c \in Call :
          (CallMade(c) /\ MissingOrMalformed(mongoUri)) =>
            /\ calls'[c].st = "configError"
            /\ isConnecting' = isConnecting /\ isConnected' = isConnected
            /\ connectionPromise' = connectionPromise]_vars

\* connect() has failed with the configuration error on a URI that is present
\* but malformed
ConfigErrorRaised ==
  \E c \in Call : calls[c].st = "configError" /\ mongoUri # <<>>

\* C11: after disconnect() returns success, from any reachable state, the
\* connected and connecting flags are false and no pending connection promise
\* is kept.
DiscReturns ==
  \/ disc = "none" /\ nDisc' = nDisc + 1 /\ disc' = "none"
  \/ disc # "none" /\ disc' = "none"

NoopReturns == disc = "none" /\ nDisc' = nDisc + 1 /\ disc' = "none"

ExplicitDisconnectIsQuiet ==
  [][(disc = "closing" /\ disc' = "none") => timers' = timers]_vars

\* C13: an unexpected disconnect event outside test mode with no connect in
\* progress schedules exactly one reconnect; when a reconnect timer fires
\* while the manager is neither connected nor connecting, connect() is called
\* exactly once, and otherwise not at all; in test mode no reconnect is ever
\* scheduled.
ConnectionLost == readyState = 1 /\ readyState' = 0 /\ ~lost /\ lost'
TimerFires == timers' = timers - 1
WatchdogCalls == {c \in Call : CallMade(c) /\ calls'[c].by = "watchdog"}

WatchdogSchedule ==
  /\ [](testMode => timers = 0)
  /\ [][(ConnectionLost /\ ~testMode /\ Unsettled = {}) => timers' = timers + 1]_vars
  /\ [][TimerFires =>
          /\ (~isConnected /\ ~isConnecting) =>
               /\ Cardinality(WatchdogCalls) = 1
               /\ \A c \in Call \ WatchdogCalls : calls'[c] = calls[c]
          /\ (isConnected \/ isConnecting) => (calls' = calls /\ chain' = chain)]_vars

\* the watchdog has called connectDB() after a lost connection
WatchdogReconnects ==
  \E c \in Call : calls[c].by = "watchdog" /\ calls[c].st = "started" /\ ~testMode

\* C14: the watchdog never starts a connection attempt while a connect()
\* started by a caller has not settled, also when that connect() is waiting
\* out a backoff delay.
ManualPending ==
  {c \in Call : calls[c].by \in {"caller", "startServer"} /\ Outcome(c) = "pending"}

WatchdogSkipsManualConnect ==
  [][\A c \in WatchdogCalls : calls'[c].st = "started" => ManualPending = {}]_vars

ConnState ==
  IF isConnected THEN "Connected" ELSE IF isConnecting THEN "Connecting" ELSE "Disconnected"

StateMachine ==
  [][ConnState' # ConnState =>
       <<ConnState, ConnState'>> \in
         { <<"Disconnected", "Connecting">>, <<"Connecting", "Connected">>,
           <<"Connected", "Disconnected">>, <<"Connecting", "Disconnected">> }]_vars

\* C16: every caller handed the outcome of a retry sequence observes its
\* final outcome: while the sequence runs its connect() is pending, when the
\* retries are exhausted it fails, when an attempt succeeds it succeeds; and
\* while the process runs no such caller stays pending forever.
Waiters == {c \in Call : calls[c].st \in {"started", "joined"}}

WaitersFollow ==
  \A c \in Waiters :
    /\ chain[calls[c].chain].st \in {"attempt", "backoff"} => Outcome(c) = "pending"
    /\ chain[calls[c].chain].st = "rejected" => Outcome(c) = "rejected"
    /\ chain[calls[c].chain].st = "resolved" => Outcome(c) = "resolved"

WaitersSeeOutcome ==
  /\ []WaitersFollow
  /\ \A c \in Call :
       (c \in Waiters /\ Outcome(c) = "pending") ~> (Outcome(c) # "pending" \/ ~Alive)

\* a caller that joined a connect in progress has seen it fail after the
\* retries were exhausted
WaiterRejected ==
  \E c \in Call :
    /\ calls[c].st = "joined" /\ Outcome(c) = "rejected"
    /\ chain[calls[c].chain].retryCount = 4

\* C18: at startup the HTTP server listens only after connectDB() has
\* succeeded; when connectDB() fails (retries exhausted or invalid URI)
\* startServer exits the process with code 1 and the server never listens.
StartCalls == {c \in Call : calls[c].by = "startServer"}

StartupOrder ==
  /\ [](server = "listening" => \E c \in StartCalls : Outcome(c) = "resolved")
  /\ [](\A c \in StartCalls : Outcome(c) \in {"rejected", "configError"} => server = "none")
  /\ [][\A c \in StartCalls :
          (Outcome(c) \in {"rejected", "configError"} /\ ~calls[c].caught /\ calls'[c].caught)
            => (proc' = "exit1" /\ server' = "none")]_vars

\* startServer has exited the process after its connectDB() exhausted the
\* retries
StartupFailed ==
  \E c \in StartCalls :
    /\ Outcome(c) = "rejected" /\ calls[c].caught
    /\ proc = "exit1" /\ server = "none"

\* C19: listPosts never fails because of its page and limit arguments: for
\* a numeric page the effective page is max(1, page), for a numeric limit the
\* effective limit is min(100, max(1, limit)), and the call succeeds.
IsInteger(s) ==
  LET body == IF s # <<>> /\ Head(s) = "-" THEN Tail(s) ELSE s
  IN  body # <<>> /\ \A i \in 1..Len(body) : body[i] \in {"0", "1"}
Max(a, b) == IF a > b THEN a ELSE b
ListDone == lq.pc = "done" /\ ~faulty

ListPostsClamps ==
  (ListDone /\ IsInteger(lq.page) /\ IsInteger(lq.limit)) =>
    /\ lq.res = "ok"
    /\ lq.effPage = Max(1, parseInt(lq.page).val)
    /\ lq.effLimit = Min(100, Max(1, parseInt(lq.limit).val))

\* C20: listPosts with a missing or non-numeric page and/or limit succeeds
\* and reports page = 1 and limit = 10 for the missing or non-numeric
\* argument.
NonNumeric(s) == s = <<"undefined">> \/ ~IsInteger(s)

ListPostsDefaultsForNonNumeric ==
  ListDone =>
    /\ (NonNumeric(lq.page) /\ NonNumeric(lq.limit)) => lq.res = "ok"
    /\ (lq.res = "ok" /\ NonNumeric(lq.page)) => lq.effPage = 1
    /\ (lq.res = "ok" /\ NonNumeric(lq.limit)) => lq.effLimit = 10

\* C21: when no post is written between the fetch and the count, listPosts
\* reports the number of stored posts as total, totalPages = ceil(total /
\* limit), and returns max(0, min(limit, total - (page-1)*limit)) items, the
\* posts at positions (page-1)*limit+1 .. page*limit of the newest-first order.
ListOk == lq.pc = "done" /\ lq.res = "ok"
\* the position of post i among the posts S, newest first
RankIn(S, i) == Cardinality({x \in S : x > i}) + 1

Pagination ==
  (ListOk /\ lq.quiet) =>
    /\ lq.effLimit \in 1..100 /\ lq.effPage >= 1
    /\ lq.total = Cardinality(lq.seen)
    /\ lq.totalPages * lq.effLimit >= lq.total
    /\ (lq.totalPages - 1) * lq.effLimit < lq.total \/ (lq.total = 0 /\ lq.totalPages = 0)
    /\ Len(lq.items) = Max(0, Min(lq.effLimit, lq.total - (lq.effPage - 1) * lq.effLimit))
    /\ \A k \in 1..Len(lq.items) :
         /\ lq.items[k] \in lq.seen
         /\ RankIn(lq.seen, lq.items[k]) = (lq.effPage - 1) * lq.effLimit + k

\* the second page of two posts, one post a page: the older post
SecondPageListed ==
  /\ ListOk /\ lq.quiet
  /\ lq.effPage = 2 /\ lq.effLimit = 1 /\ lq.total = 2 /\ lq.totalPages = 2
  /\ lq.items = <<1>>

\* C22: in a paginated read the count is issued before the fetch has completed:
\* no write takes effect after the fetch has returned and before the count is
\* issued. (getCommentsByPost awaits the fetch and the count together, in one
\* step; getPosts is between the two while it is at "count".)
CountIssuedWithFetch == [][lq.pc = "count" => posts' = posts]_vars

\* C23: listCommentsByPost of an existing post never fails because of page or
\* limit: it answers with page = max(1, page) (1 when page is missing or not a
\* number), limit = min(100, max(1, limit)) (10 when limit is missing or not a
\* number), and skips (page - 1) * limit >= 0 comments.
ClampedPage(s) ==
  IF s = Missing \/ parseInt(s).nan THEN 1 ELSE Max(1, parseInt(s).val)
ClampedLimit(s) ==
  IF s = Missing \/ parseInt(s).nan THEN 10 ELSE Min(100, Max(1, parseInt(s).val))
CommentsListed(r) ==
  /\ rq[r].op = "listComments" /\ rq[r].pc = "done" /\ ~faulty
  /\ rq[r].res \notin {"notFound", "badRequest"}

ListCommentsClamps ==
  \A r \in Req :
    CommentsListed(r) =>
      /\ rq[r].res = "ok"
      /\ rq[r].list.pageNum = [nan |-> FALSE, val |-> ClampedPage(rq[r].list.page)]
      /\ rq[r].list.limitNum = [nan |-> FALSE, val |-> ClampedLimit(rq[r].list.limit)]
      /\ rq[r].list.skip = [nan |-> FALSE,
                            val |-> (ClampedPage(rq[r].list.page) - 1)
                                      * ClampedLimit(rq[r].list.limit)]
      /\ Len(rq[r].list.items) <= ClampedLimit(rq[r].list.limit)

\* C24: a successful updatePost replaces exactly the supplied fields (title and
\* author trimmed); every field not supplied keeps its value, and no other
\* post and no comment is changed.
UpdateSaved(r) ==
  /\ rq[r].op = "updatePost" /\ rq[r].pc = "up_save"
  /\ rq'[r].pc = "done" /\ rq'[r].res = "ok"

UpdateReplacesSupplied ==
  [][\A r \in Req :
       UpdateSaved(r) =>
         LET i == rq[r].id
             b == rq[r].doc
         IN  /\ \A f \in {"title", "content", "author", "status"} \ Supplied(b) :
                  docs'[i][f] = docs[i][f]
             /\ "title" \in Supplied(b) => docs'[i].title = trim(b.title)
             /\ "content" \in Supplied(b) => docs'[i].content = b.content
             /\ "author" \in Supplied(b) => docs'[i].author = trim(b.author)
             /\ "status" \in Supplied(b) => docs'[i].status = b.status
             /\ \A j \in PostIds \ {i} : docs'[j] = docs[j]
             /\ posts' = posts /\ comments' = comments
             /\ rq'[r].doc = docs'[i]]_vars

\* the status of post 1 was updated alone
StatusUpdated ==
  /\ rq[1].op = "updatePost" /\ rq[1].pc = "done" /\ rq[1].res = "ok" /\ rq[1].id = 1
  /\ docs[1] = [PlainPost EXCEPT !.status = "published"]
  /\ docs[2] = PlainPost /\ comments # {}

\* C25: an updatePost that fails (NotFound, a malformed id, a field that fails
\* its check, also after an earlier field passed) leaves every stored post as
\* it was.
UpdateStep(r) == rq'[r].op = "updatePost" /\ rq'[r] # rq[r]

FailedUpdateKeepsPost ==
  [][\A r \in Req :
       (UpdateStep(r) /\ rq'[r].res # "ok") =>
         docs' = docs /\ posts' = posts /\ comments' = comments]_vars

\* an update was refused after its content had passed and been assigned to
\* the document in memory: the stored post has kept its content
SecondFieldRefused ==
  /\ rq[1].op = "updatePost" /\ rq[1].pc = "done" /\ rq[1].res = "badRequest"
  /\ rq[1].id = 1
  /\ rq[1].doc.content = Str(0, MaxTitleLen + 1)
  /\ docs[1] = PlainPost

\* C26: createPost with a title of 1..200 characters after trimming, a
\* non-empty content, author left out or given and status left out, draft or
\* published succeeds, stores exactly one new post and returns it: title and
\* author trimmed, content as given, status as given or draft.
GoodTitle(b) == b.title.kind = "str" /\ b.title.body >= 1 /\ b.title.body <= MaxTitleLen
GoodStatus(b) == b.status \in {"undef", "draft", "published"}
ValidPayload(b) ==
  /\ GoodTitle(b) /\ GoodStatus(b)
  /\ b.content.kind = "str" /\ b.content.pad + b.content.body >= 1
  /\ b.author.kind \in {"undef", "str"}
CreateDone(r) == rq[r].op = "createPost" /\ rq[r].pc = "done"
\* the save of a createPost has stored one post and returned it
CreateStored(r) ==
  /\ rq'[r].pc = "done" /\ rq'[r].res = "created"
  /\ posts' = posts \cup {rq'[r].id} /\ rq'[r].id \notin posts
  /\ \A j \in posts : docs'[j] = docs[j]
  /\ docs'[rq'[r].id] = rq'[r].doc
  /\ rq'[r].doc = [title |-> trim(rq[r].doc.title), content |-> rq[r].doc.content,
                   author |-> trim(rq[r].doc.author),
                   status |-> IF rq[r].doc.status = "undef" THEN "draft"
                                                            ELSE rq[r].doc.status]

AcceptedPayload(b) ==
  /\ ValidPayload(b)
  /\ b.content.body >= 1
  /\ b.author.kind = "str" /\ b.author.body >= 1

RuleBroken(b) ==
  \/ b.title.kind = "str" /\ (b.title.body = 0 \/ b.title.body > MaxTitleLen)
  \/ b.content.kind = "str" /\ b.content.pad + b.content.body = 0
  \/ b.status \notin {"undef", "draft", "published"}
\* request r holds the body it was called with
HoldsBody(r) ==
  \/ rq[r].op = "createPost" /\ rq[r].pc = "cp_save"
  \/ rq[r].op = "updatePost" /\ rq[r].pc \in {"up_find", "up_save"}

BrokenRuleIsValidationError ==
  /\ [](\A r \in Req : (CreateDone(r) /\ rq[r].res # "created" /\ RuleBroken(rq[r].doc))
                          => rq[r].res = "badRequest")
  /\ [][\A r \in Req :
          (HoldsBody(r) /\ RuleBroken(rq[r].doc) /\ ~faulty /\ rq'[r] # rq[r])
            => /\ docs' = docs /\ posts' = posts
               /\ rq'[r].pc = "done" => rq'[r].res \in {"badRequest", "notFound"}]_vars

\* C28: every stored post has a title that is non-empty after trimming and of
\* at most 200 characters, a content that is non-empty after trimming, and a
\* status of draft or published.
WellFormedPost(d) ==
  /\ d.title.kind = "str" /\ d.title.body >= 1 /\ d.title.body <= MaxTitleLen
  /\ d.content.kind = "str" /\ d.content.body >= 1
  /\ d.status \in {"draft", "published"}

StoredPostsWellFormed ==
  /\ \A i \in posts : WellFormedPost(docs[i])
  /\ \A i \in PostIds \ posts : docs[i] = NoDoc

\* the first post was deleted and the second one published by an update
PublishedAfterDelete ==
  /\ posts = {2} /\ docs[2].status = "published"
  /\ rq[1].op = "updatePost" /\ rq[1].pc = "done" /\ rq[1].res = "ok"


\* C29: in production the body of a response with a status of 500 or more is
\* the same for any two errors that differ only in message, stack, name and
\* code, and the stack, name and code fields are sent only in development.
Twins(e) ==
  {[e EXCEPT !.message = m, !.stack = s, !.name = n, !.code = c] :
     m \in Messages, s \in Stacks, n \in ErrNames, c \in ErrCodes}
ServerErrorHidesDetails ==
  eh.pc = "sent" =>
    /\ (eh.env = "production" /\ eh.res.status >= 500) =>
         \A e2 \in Twins(eh.err) :
           errorHandler(eh.env, e2).status >= 500 =>
             errorHandler(eh.env, e2).body = eh.res.body
    /\ eh.res.body.dev => eh.env = "development"


\* C30: one client, one request at a time. A successful deleteComment(id)
\* removes that comment and nothing else: the posts, their fields and the
\* other comments stay as they are. A comment that was deleted stays deleted,
\* and a later deleteComment(id) by an authenticated user or getComment(id)
\* answers NotFound (or an internal error when its store call fails).
DeletedComments == {c \in 1..commentSeq : c \notin CommentIdsIn(comments)}
DeleteCommentIsFinal ==
  /\ [][(rq[1].op = "deleteComment" /\ rq[1].pc = "dc_delete" /\ rq'[1].res = "ok") =>
          /\ comments' = {c \in comments : c.id # rq[1].id}
          /\ rq[1].id \in DeletedComments'
          /\ posts' = posts /\ docs' = docs]_vars
  /\ [][DeletedComments \subseteq DeletedComments']_vars
  /\ [][(rq[1].pc \in {"dc_find", "gc_find"} /\ rq[1].id \in DeletedComments
           /\ rq'[1] # rq[1]) =>
          /\ rq'[1].pc = "done"
          /\ rq'[1].res \in {"notFound"} \cup (IF faulty THEN {"error"} ELSE {})]_vars

\* a comment was deleted by deleteComment (no post was ever deleted), and a
\* second deleteComment of it has answered NotFound; its post and another
\* comment are still stored
DeleteCommentTwice ==
  /\ rq[1].op = "deleteComment" /\ rq[1].pc = "done" /\ rq[1].res = "notFound"
  /\ rq[1].id \in DeletedComments
  /\ postSeq >= 1 /\ posts = 1..postSeq
  /\ comments # {}


\* C31 as stated: when the retry sequence of a watchdog call fails for the
\* fifth time, the flags are both false and the failure schedules no timer;
\* from then on, with no timer pending and no retry sequence unsettled, the
\* flags, the timers and the retry sequences stay as they are until the
\* connection is lost again or a caller calls connectDB(); a step starts at
\* most one retry sequence, and no sequence goes beyond its fifth attempt.
WatchdogExhausted ==
  \E k \in Call : calls[k].by = "watchdog" /\ calls[k].chain = k /\ chain[k].st = "rejected"
WatchdogQuiet ==
  /\ WatchdogExhausted
  /\ Unsettled = {} /\ timers = 0
  /\ ~isConnected /\ ~isConnecting
CallerConnects == \E c \in Call : calls[c].st = "unused" /\ calls'[c].by = "caller"
DisconnectEvent == readyState # 0 /\ readyState' = 0
StartedChains == {k \in Call : chain[k].st = "unused" /\ chain'[k].st # "unused"}
\* the timer that makes the watchdog call is used up by it, no failed attempt
\* of the watchdog's retry sequence schedules another, and the fifth failure
\* leaves both flags false
WatchdogRuns ==
  \A k \in Call :
    /\ (calls[k].st = "unused" /\ calls'[k].by = "watchdog") => timers' = timers - 1
    /\ (calls[k].by = "watchdog" /\ chain[k].st = "attempt" /\ chain'[k].st # "attempt") =>
         \/ chain'[k].st = "resolved"
         \/ chain'[k].st = "backoff" /\ timers' = timers
         \/ chain'[k].st = "rejected" /\ timers' = timers /\ ~isConnected' /\ ~isConnecting'
ReconnectEvent == lost /\ readyState = 0 /\ readyState' = 1
Settled(c) == Outcome(c) \in {"resolved", "rejected", "configError"}
ConnectSettles ==
  /\ \A c \in Call : (calls[c].st # "unused") ~> Settled(c)
  /\ [][\A c \in Call :
          (~Settled(c) /\ Settled(c)') =>
            /\ ~isConnecting'
            /\ Outcome(c)' = "resolved" => isConnected']_vars

\* a call has resolved on its third attempt, after two backoff delays
SettledOnThirdAttempt ==
  \E c \in Call :
    /\ calls[c].st = "started" /\ Outcome(c) = "resolved"
    /\ chain[c].retryCount = 2 /\ Len(chain[c].delays) = 2
    /\ isConnected /\ ~isConnecting


\* C33: getConnectionState never reports isConnected and isConnecting both
\* true.
NeverConnectedAndConnecting == ~(isConnected /\ isConnecting)


\* C34: of two deletePost requests for the same post, both called while the
\* post was stored and run against each other with no other request, exactly
\* one answers success and the other NotFound or an internal error (its
\* transaction failed), no store call failing for another reason; the
\* deletedComments count of the successful one is the number of comments the
\* post had, and all of them go with it.
SamePostDeletes(r, q) ==
  /\ r # q
  /\ rq[r].op = "deletePost" /\ rq[q].op = "deletePost"
  /\ rq[r].id = rq[q].id
  /\ gh[r].stored /\ gh[q].stored
ConcurrentDeleteResult ==
  \A r, q \in Req :
    (SamePostDeletes(r, q) /\ rq[r].pc = "done" /\ rq[q].pc = "done" /\ ~faulty) =>
      \/ rq[r].res = "ok" /\ rq[q].res \in {"notFound", "error"}
      \/ rq[q].res = "ok" /\ rq[r].res \in {"notFound", "error"}
ConcurrentDeletePost ==
  /\ []ConcurrentDeleteResult
  /\ [][\A r, q \in Req :
          (SamePostDeletes(r, q) /\ rq[r].pc = "dp_commit" /\ rq'[r].res = "ok") =>
            /\ rq'[r].cnt = Cardinality(gh[r].pre)
            /\ gh[q].pre = gh[r].pre
            /\ CommentsOf(comments', rq[r].id) = {}
            /\ rq[q].res # "ok" /\ rq'[q].res # "ok"]_vars

\* two deletePost requests ran against each other on a post with a comment:
\* one removed the post and reports one comment, the other met the first
\* one's transaction and failed
DeletePostRace ==
  /\ SamePostDeletes(1, 2)
  /\ rq[1].pc = "done" /\ rq[2].pc = "done" /\ ~faulty
  /\ rq[1].res = "ok" /\ rq[1].cnt = 1
  /\ rq[2].res = "error"

\* C35: deleteComment and updateComment answer success only when a comment
\* has the id at the moment of their write; two deleteComment requests for
\* the same comment never both answer success, and no updateComment answers
\* success with null in place of the comment.
CommentWritesFindTheirComment ==
  /\ [][\A r \in Req :
          (rq[r].pc \in {"dc_delete", "uc_update"} /\ rq'[r].res = "ok") =>
            rq[r].id \in CommentIdsIn(comments)]_vars
  /\ [](\A r, q \in Req :
          (r # q /\ rq[r].op = "deleteComment" /\ rq[q].op = "deleteComment"
             /\ rq[r].id = rq[q].id /\ rq[r].pc = "done" /\ rq[q].pc = "done") =>
            ~(rq[r].res = "ok" /\ rq[q].res = "ok"))
  /\ [](\A r \in Req :
          (rq[r].op = "updateComment" /\ rq[r].pc = "done" /\ rq[r].res = "ok") =>
            rq[r].cnt = 1)


\* The end state of a deletePost whose session was opened: session ended,
\* a response sent, no transaction left in progress.
DeletePostEnded ==
  \A r \in Req :
    (rq[r].op = "deletePost" /\ rq[r].pc = "done" /\ tx[r].sess # "none") =>
      /\ tx[r].sess = "ended"
      /\ tx[r].txn # "active"
      /\ rq[r].res # "none"
\* C36: every deletePost whose session was opened ends that session exactly
\* once and sends exactly one response, and leaves no transaction in progress.
DeletePostEndsCleanly ==
  /\ []DeletePostEnded
  /\ [][\A r \in Req :
          StepOf(r, "deletePost") =>
            /\ tx[r].sess # "ended"
            /\ rq[r].res # "none" => rq'[r].res = rq[r].res]_vars


\* disconnectDB() has returned and connectDB() has not been called since
\* (under QuietSpec every connectDB() call precedes the disconnectDB() call)
DisconnectReturned == nDisc > 0 /\ disc = "none"
AttemptStarts == \E k \in Call : chain[k].st # "attempt" /\ chain'[k].st = "attempt"
\* C37: after disconnect() has returned, with no later connect() call, the
\* state stays Disconnected and no store connection attempt is started, also
\* by a retry sequence that was waiting out its backoff delay.
StaysDisconnected ==
  /\ [](DisconnectReturned => (~isConnected /\ ~isConnecting /\ readyState = 0))
  /\ [][DisconnectReturned => ~AttemptStarts]_vars


\* steps of a shutdown that was started by a signal
ConnectionCloseStarts == sd'.signals > 0 /\ readyState # readyState' /\ readyState' \in {3, 0}
ProcessExits == sd'.signals > 0 /\ proc = "running" /\ proc' # "running"
SecondSignal == sd.isShuttingDown /\ sd'.signals > sd.signals
HttpServerDown == server' \in {"none", "closed"}
\* C38: on SIGTERM or SIGINT the database connection is closed only after
\* the HTTP server has closed, a second signal during shutdown starts nothing,
\* and the process exits only after the database connection has been closed,
\* in that order, or the 10 s forced-exit timer has fired.
ShutdownInOrder ==
  /\ [][ConnectionCloseStarts => HttpServerDown]_vars
  /\ [][SecondSignal => (readyState' = readyState /\ sd'.manager = sd.manager
                         /\ sd'.app = sd.app /\ sd'.timeout = sd.timeout)]_vars
  /\ [][ProcessExits => \/ sd'.timeout = "fired"
                        \/ readyState' = 0 /\ HttpServerDown]_vars


\* C39: for every currentStatus and newStatus among draft, published and
\* archived, validateStatusTransition returns a result without throwing, and
\* valid is true exactly when newStatus is one of
\* getValidTransitions(currentStatus).
TransitionsAgree ==
  \A c \in StatusNames, n \in StatusNames :
    vt[c][n].st # "none" =>
      /\ vt[c][n].st = "returned"
      /\ vt[c][n].valid <=> arrayIncludes(getValidTransitions(c), n)


\* the posts of a collected page
PagePosts(g) == {g.items[k] : k \in DOMAIN g.items}
CollectedAll == pg.got # {} /\ \A p \in 1..pg.totalPages : \E g \in pg.got : g.page = p
\* C40: with no write running and one limit, the pages 1..totalPages of
\* getPosts partition the stored posts: no post is on two pages, every post
\* is on a page once all of them are collected, the pages are in newest-first
\* order within and across pages, and a page beyond totalPages is empty.
PagesPartition ==
  /\ pg.limit # 0 => pg.limit \in 1..100
  /\ \A g \in pg.got :
       /\ PagePosts(g) \subseteq posts
       /\ \A j, k \in DOMAIN g.items : j < k => g.items[j] > g.items[k]
       /\ g.page > pg.totalPages => g.items = <<>>
       /\ \A h \in pg.got :
            g.page < h.page => \A x \in PagePosts(g), y \in PagePosts(h) : x > y
  /\ CollectedAll =>
       UNION {PagePosts(g) : g \in {h \in pg.got : h.page <= pg.totalPages}} = posts

\* two posts, one post a page: pages 1 and 2 and a page beyond were collected
WalkedAllPages ==
  /\ posts = {1, 2} /\ pg.limit = 1 /\ pg.totalPages = 2
  /\ Cardinality(pg.got) = 3
  /\ CollectedAll

====
